---- MODULE Spec2Model ----
(***************************************************************************)
(* Sparse, time-indexed, multi-channel event store of midi2swstruct:       *)
(* MultiSequence<T, N> (src/src/sequence/multisequence.rs),                *)
(* TimeByteMultiSequence<N>, TimeByteSequence (src/src/timebytesequence.rs)*)
(* and Sequence<T> (src/src/sequence/sequence.rs); the typed view over     *)
(* byte channels (src/src/sequence/multisequenceview.rs); the bitset-backed *)
(* OptionArray<T, N> (src/option_array/src/lib.rs); data_to_functions and  *)
(* the block list of generate_music_player (src/src/lib.rs).               *)
(*                                                                         *)
(* A BTreeMap<usize, V> is a function whose DOMAIN is its key set; an      *)
(* Option<T> is <<>> (None) or <<v>> (Some(v)); an OptionArray<T, N> is a  *)
(* function 0..N-1 -> Option<T>.                                           *)
(***************************************************************************)
EXTENDS Integers, Sequences, FiniteSets, TLC

\* ------------------------------------------------------------------ bounds

\* Number of channels N of the stores of Spec.
NumChan == 2
\* Times of Spec are 0..MaxTime.
MaxTime == 2
\* Stored bytes of Spec are 0..MaxVal.
MaxVal == 1
\* Total number of (index, value) entries written by set / set_group.
MaxWrites == 3

Times == 0..MaxTime
Vals == 0..MaxVal
Chans(n) == 0..(n - 1)

\* ------------------------------------------------------- Option, OptionArray

None == <<>>
Some(v) == <<v>>
IsSome(o) == Len(o) = 1
Unwrap(o) == o[1]
\* Option::unwrap_or
UnwrapOr(o, d) == IF IsSome(o) THEN o[1] ELSE d

\* OptionArray::new: every flag bit 0
OptionArray_new(n) == [i \in Chans(n) |-> None]
\* OptionArray::get
OptionArray_get(arr, index) == arr[index]
\* OptionArray::set: writes the slot and sets its flag bit
OptionArray_set(arr, index, value) == [arr EXCEPT ![index] = Some(value)]

\* ------------------------------------------------------------------ BTreeMap

EmptyMap == [k \in {} |-> None]
MaxOf(S) == CHOOSE x \in S : \A y \in S : y <= x
MinOf(S) == CHOOSE x \in S : \A y \in S : x <= y
\* the map after `*map.entry(time).or_insert_with(..) = v`
MapPut(m, time, v) == [k \in (DOMAIN m) \cup {time} |-> IF k = time THEN v ELSE m[k]]
\* BTreeMap::range(..=time): the keys <= time
RangeToInclusive(m, time) == {k \in DOMAIN m : k <= time}

\* ------------------------------------------- MultiSequence (multisequence.rs)

\* MultiSequence::set
MultiSequence_set(m, n, time, index, value) ==
    LET entry == IF time \in DOMAIN m THEN m[time] ELSE OptionArray_new(n)
    IN  MapPut(m, time, OptionArray_set(entry, index, value))

\* the loop of set_group over values[from..]
RECURSIVE SetAll(_, _, _)
SetAll(entry, values, from) ==
    IF from > Len(values) THEN entry
    ELSE SetAll(OptionArray_set(entry, values[from][1], values[from][2]), values, from + 1)

\* MultiSequence::set_group
MultiSequence_set_group(m, n, time, values) ==
    LET entry == IF time \in DOMAIN m THEN m[time] ELSE OptionArray_new(n)
    IN  MapPut(m, time, SetAll(entry, values, 1))

\* FindMapRev stopping at the greatest key, whatever its snapshot holds for
\* `index` (next_back() in place of rev().find_map())
FindMapRev_next_back(m, keys, index) ==
    IF keys = {} THEN None ELSE OptionArray_get(m[MaxOf(keys)], index)

\* range(..=time).rev().find_map(|(_, arr)| arr.get(index)) over the keys `keys`
RECURSIVE FindMapRev(_, _, _)
FindMapRev(m, keys, index) ==
    IF keys = {} THEN None
    ELSE LET k == MaxOf(keys)
         IN  IF IsSome(OptionArray_get(m[k], index))
             THEN OptionArray_get(m[k], index)
             ELSE FindMapRev(m, keys \ {k}, index)

\* MultiSequence::floor
MultiSequence_floor(m, time, index) ==
    UnwrapOr(FindMapRev(m, RangeToInclusive(m, time), index), 0)

\* MultiSequence_keys_to_clear comparing values with an absent slot read as the
\* default 0
RECURSIVE MultiSequence_keys_to_clear_absent_as_default(_, _, _, _)
MultiSequence_keys_to_clear_absent_as_default(m, n, keys, last) ==
    IF keys = {} THEN {}
    ELSE LET time == MinOf(keys)
             arr  == m[time]
             same(i) == UnwrapOr(OptionArray_get(arr, i), 0) = UnwrapOr(last[i], 0)
             last2 == [i \in Chans(n) |-> IF same(i) THEN last[i] ELSE OptionArray_get(arr, i)]
         IN  {<<time, i>> : i \in {j \in Chans(n) : same(j)}}
               \cup MultiSequence_keys_to_clear_absent_as_default(m, n, keys \ {time}, last2)

\* The (time, index) entries MultiSequence::optimize marks for clearing: one
\* ascending pass over the keys `keys`, last_values = `last` (Option<&T> each).
RECURSIVE MultiSequence_keys_to_clear(_, _, _, _)
MultiSequence_keys_to_clear(m, n, keys, last) ==
    IF keys = {} THEN {}
    ELSE LET time == MinOf(keys)
             arr  == m[time]
             indices_to_clear == {i \in Chans(n) : OptionArray_get(arr, i) = last[i]}
             last2 == [i \in Chans(n) |->
                         IF OptionArray_get(arr, i) = last[i] THEN last[i]
                         ELSE OptionArray_get(arr, i)]
         IN  {<<time, i>> : i \in indices_to_clear}
               \cup MultiSequence_keys_to_clear(m, n, keys \ {time}, last2)

\* ClearAll removing the whole key of every collected (time, i)
ClearAll_remove_key(m, n, toClear) ==
    [time \in {k \in DOMAIN m : \A i \in Chans(n) : <<k, i>> \notin toClear} |-> m[time]]

\* The second loop of optimize: arr.clear(i) for every collected (time, i).
ClearAll(m, n, toClear) ==
    [time \in DOMAIN m |->
        [i \in Chans(n) |-> IF <<time, i>> \in toClear THEN None ELSE m[time][i]]]

\* MultiSequence::optimize
MultiSequence_optimize(m, n) ==
    ClearAll(m, n, MultiSequence_keys_to_clear(m, n, DOMAIN m, [i \in Chans(n) |-> None]))

\* ------------------------------- TimeByteMultiSequence (timebytesequence.rs)

\* TimeByteMultiSequence::set
TimeByteMultiSequence_set(m, n, time, index, value) ==
    LET entry == IF time \in DOMAIN m THEN m[time] ELSE OptionArray_new(n)
    IN  MapPut(m, time, OptionArray_set(entry, index, value))

\* TimeByteMultiSequence::set_many
TimeByteMultiSequence_set_many(m, n, time, values) ==
    LET entry == IF time \in DOMAIN m THEN m[time] ELSE OptionArray_new(n)
    IN  MapPut(m, time, SetAll(entry, values, 1))

\* TimeByteMultiSequence::get
TimeByteMultiSequence_get(m, time, index) ==
    UnwrapOr(FindMapRev(m, RangeToInclusive(m, time), index), 0)

\* The (time, index) entries TimeByteMultiSequence::optimize marks for clearing:
\* last_values = `last` (u8 each), an absent slot read as 0 (unwrap_or(0)).
RECURSIVE TimeByteMultiSequence_keys_to_clear(_, _, _, _)
TimeByteMultiSequence_keys_to_clear(m, n, keys, last) ==
    IF keys = {} THEN {}
    ELSE LET time == MinOf(keys)
             arr  == m[time]
             value(i) == UnwrapOr(OptionArray_get(arr, i), 0)
             indices_to_clear == {i \in Chans(n) : value(i) = last[i]}
             last2 == [i \in Chans(n) |-> IF value(i) = last[i] THEN last[i] ELSE value(i)]
         IN  {<<time, i>> : i \in indices_to_clear}
               \cup TimeByteMultiSequence_keys_to_clear(m, n, keys \ {time}, last2)

\* TimeByteMultiSequence::optimize
TimeByteMultiSequence_optimize(m, n) ==
    ClearAll(m, n, TimeByteMultiSequence_keys_to_clear(m, n, DOMAIN m, [i \in Chans(n) |-> 0]))

\* ----------------------------------------------- bitwise operators on integers

RECURSIVE BitAnd(_, _)
\* a & b
BitAnd(a, b) ==
    IF a = 0 \/ b = 0 THEN 0
    ELSE (a % 2) * (b % 2) + 2 * BitAnd(a \div 2, b \div 2)

RECURSIVE BitOr(_, _)
\* a | b
BitOr(a, b) ==
    IF a = 0 THEN b ELSE IF b = 0 THEN a
    ELSE (IF a % 2 = 1 \/ b % 2 = 1 THEN 1 ELSE 0) + 2 * BitOr(a \div 2, b \div 2)

\* a ^ b computed as a | b
BitXor_as_or(a, b) == BitOr(a, b)

RECURSIVE BitXor(_, _)
\* a ^ b
BitXor(a, b) ==
    IF a = 0 THEN b ELSE IF b = 0 THEN a
    ELSE ((a + b) % 2) + 2 * BitXor(a \div 2, b \div 2)

Ops == {"bitand", "bitor", "bitxor"}

\* `a $op b` of the macro instantiated for method `op`
ApplyOp(op, a, b) ==
    CASE op = "bitand" -> BitAnd(a, b)
      [] op = "bitor"  -> BitOr(a, b)
      [] op = "bitxor" -> BitXor(a, b)

\* --------------------------------------------------- Sequence (sequence.rs)
\* A Sequence<T> / TimeByteSequence is its BTreeMap<usize, T>: a function from
\* its keys to values.

\* Sequence::floor
Sequence_floor(seq, time) ==
    IF RangeToInclusive(seq, time) = {} THEN 0
    ELSE seq[MaxOf(RangeToInclusive(seq, time))]

\* the keys Sequence::optimize collects in keys_to_remove over `keys`
RECURSIVE Sequence_keys_to_remove(_, _, _)
Sequence_keys_to_remove(seq, keys, last_value) ==
    IF keys = {} THEN {}
    ELSE LET time == MinOf(keys)
         IN  IF seq[time] = last_value
             THEN {time} \cup Sequence_keys_to_remove(seq, keys \ {time}, last_value)
             ELSE Sequence_keys_to_remove(seq, keys \ {time}, seq[time])

\* Sequence::optimize
Sequence_optimize(seq) ==
    [t \in (DOMAIN seq) \ Sequence_keys_to_remove(seq, DOMAIN seq, 0) |-> seq[t]]

\* impl_bitwise_for_sequence: &Sequence $op &Sequence
Sequence_bitop(op, self, rhs) ==
    LET times == (DOMAIN self) \cup (DOMAIN rhs)
        value(time) == ApplyOp(op, Sequence_floor(self, time), Sequence_floor(rhs, time))
    IN  [time \in {t \in times : value(t) # 0} |-> value(time)]

\* MultiSequence::get_sequence
MultiSequence_get_sequence(m, index) ==
    [time \in {k \in DOMAIN m : IsSome(OptionArray_get(m[k], index))} |->
        Unwrap(OptionArray_get(m[time], index))]

\* ------------------------------------ TimeByteSequence (timebytesequence.rs)

\* TimeByteSequence::get_extrapolated
TimeByteSequence_get_extrapolated(seq, time) ==
    IF RangeToInclusive(seq, time) = {} THEN 0
    ELSE seq[MaxOf(RangeToInclusive(seq, time))]

\* the keys TimeByteSequence::optimize collects in keys_to_remove over `keys`
RECURSIVE TimeByteSequence_keys_to_remove(_, _, _)
TimeByteSequence_keys_to_remove(seq, keys, last_value) ==
    IF keys = {} THEN {}
    ELSE LET time == MinOf(keys)
         IN  IF seq[time] = last_value
             THEN {time} \cup TimeByteSequence_keys_to_remove(seq, keys \ {time}, last_value)
             ELSE TimeByteSequence_keys_to_remove(seq, keys \ {time}, seq[time])

\* TimeByteSequence::optimize
TimeByteSequence_optimize(seq) ==
    [t \in (DOMAIN seq) \ TimeByteSequence_keys_to_remove(seq, DOMAIN seq, 0) |-> seq[t]]

\* impl_bitwise_for_time_sequence: &TimeByteSequence $op &TimeByteSequence
TimeByteSequence_bitop(op, self, rhs) ==
    LET times == (DOMAIN self) \cup (DOMAIN rhs)
        value(time) == ApplyOp(op, TimeByteSequence_get_extrapolated(self, time),
                                   TimeByteSequence_get_extrapolated(rhs, time))
    IN  [time \in {t \in times : value(t) # 0} |-> value(time)]

\* TimeByteMultiSequence::to_sequence
TimeByteMultiSequence_to_sequence(m, index) ==
    [time \in {k \in DOMAIN m : IsSome(OptionArray_get(m[k], index))} |->
        Unwrap(OptionArray_get(m[time], index))]

\* ------------------- TimeByteMultiSequence algebra (timebytesequence.rs)

\* BTreeMap::get
MapGet(m, time) == IF time \in DOMAIN m THEN Some(m[time]) ELSE None

\* arr.and_then(|a| a.get(i)).unwrap_or(0): the held value never carried over
HeldOr_zero(arr, i, last) ==
    IF IsSome(arr) /\ IsSome(OptionArray_get(Unwrap(arr), i))
    THEN Unwrap(OptionArray_get(Unwrap(arr), i))
    ELSE 0

\* arr.and_then(|a| a.get(i)).unwrap_or(last[i])
HeldOr(arr, i, last) ==
    IF IsSome(arr) /\ IsSome(OptionArray_get(Unwrap(arr), i))
    THEN Unwrap(OptionArray_get(Unwrap(arr), i))
    ELSE last[i]

\* the loop of impl_bitwise_for_multi_sequence over the sorted, deduplicated
\* all_times = `times`, from the tracked last_self / last_rhs and `result`
RECURSIVE TimeByteMultiSequence_bitop_loop(_, _, _, _, _, _, _, _)
TimeByteMultiSequence_bitop_loop(op, self, rhs, nn, times, last_self, last_rhs, result) ==
    IF times = {} THEN result
    ELSE LET time == MinOf(times)
             arr_self == MapGet(self, time)
             arr_rhs  == MapGet(rhs, time)
             val_self == [i \in Chans(nn) |-> HeldOr(arr_self, i, last_self)]
             val_rhs  == [i \in Chans(nn) |-> HeldOr(arr_rhs, i, last_rhs)]
             arr_result == [i \in Chans(nn) |->
                              IF ApplyOp(op, val_self[i], val_rhs[i]) # 0
                              THEN Some(ApplyOp(op, val_self[i], val_rhs[i]))
                              ELSE None]
         IN  TimeByteMultiSequence_bitop_loop(op, self, rhs, nn, times \ {time},
                 val_self, val_rhs, MapPut(result, time, arr_result))

\* impl_bitwise_for_multi_sequence: &TimeByteMultiSequence $op &TimeByteMultiSequence
TimeByteMultiSequence_bitop(op, self, rhs, nn) ==
    TimeByteMultiSequence_bitop_loop(op, self, rhs, nn, (DOMAIN self) \cup (DOMAIN rhs),
        [i \in Chans(nn) |-> 0], [i \in Chans(nn) |-> 0], EmptyMap)

\* ------------------------------------------------------------------- state

VARIABLES
    kind,      \* which store type is under construction
    n,         \* its channel count N (a const generic, fixed at construction)
    map,       \* the store's BTreeMap<usize, OptionArray<u8, N>>
    written,   \* written[t][c]: the last value a set / set_group call wrote for
               \* channel c at time t and that was not cleared since (None if none)
    pre,       \* Some(the store as it was when optimize() was called) when the last
               \* mutating call on the store was optimize(), None otherwise
    writes,    \* number of (index, value) entries written so far (an empty
               \* set_group counts as one)
    query,     \* Some([time, index, value]): the last floor query and its result
    rhs,       \* a second store, the right operand of the binary operators
    result,    \* Some(the value the last operator call returned)
    call,      \* Some([op, arg, on]): the last operator call: `&map $op &rhs`
               \* (arg "rhs") or `&map $op &map` (arg "self"), on the stores
               \* themselves or on the sequences of channel on.index
    flags,     \* OptionArray::flags, the presence bitset: flags[b] is byte b
    data,      \* OptionArray::data: data[i] is the content of slot i, Uninit
               \* while the slot was never written
    shadow,    \* shadow[i]: Some(the value the latest call affecting slot i of
               \* the OptionArray wrote), None if that call emptied the slot
    gmp        \* the locals of a running generate_music_player: its position
               \* pc, blocks.len(), the loop counters c and n, the counts
               \* derived from the input, and the last index it allocated

algvars == <<rhs, result, call>>
oavars == <<flags, data, shadow>>
vars == <<kind, n, map, written, pre, writes, query, rhs, result, call,
          flags, data, shadow, gmp>>

\* the specifications of the stores hold no separate OptionArray
NoOptionArray ==
    /\ flags = <<>>
    /\ data = <<>>
    /\ shadow = <<>>

\* ... and run no generate_music_player
NoGraph == gmp = <<>>

Kinds == {"MultiSequence", "TimeByteMultiSequence"}

\* (index, value) pairs of a set_group / set_many call, and the slices passed:
\* the empty slice and every slice of two pairs (a slice of one pair writes what
\* set writes)
Pairs == Chans(NumChan) \X Vals
Groups == {<<>>} \cup {<<p, q>> : p \in Pairs, q \in Pairs}

Init ==
    /\ kind \in Kinds
    /\ n = NumChan
    /\ map = EmptyMap
    /\ written = EmptyMap
    /\ pre = None
    /\ writes = 0
    /\ query = None
    /\ rhs = EmptyMap
    /\ result = None
    /\ call = None
    /\ NoOptionArray
    /\ NoGraph

\* the table `written` after value is written for index at time
WrittenPut(w, time, index, value) ==
    LET row == IF time \in DOMAIN w THEN w[time] ELSE [c \in Chans(n) |-> None]
    IN  MapPut(w, time, [row EXCEPT ![index] = Some(value)])

\* the table `written` after the writes values[from..] at `time`
RECURSIVE WrittenAfter(_, _, _, _)
WrittenAfter(w, time, values, from) ==
    IF from > Len(values) THEN w
    ELSE WrittenAfter(WrittenPut(w, time, values[from][1], values[from][2]),
                      time, values, from + 1)

\* what a call counts for in `writes`
Cost(values) == IF Len(values) = 0 THEN 1 ELSE Len(values)

\* store.set(time, index, value)
Set(time, index, value) ==
    /\ index < n
    /\ map' = IF kind = "MultiSequence"
              THEN MultiSequence_set(map, n, time, index, value)
              ELSE TimeByteMultiSequence_set(map, n, time, index, value)
    /\ written' = WrittenPut(written, time, index, value)
    /\ pre' = None
    /\ writes' = writes + 1
    /\ query' = None
    /\ UNCHANGED <<kind, n, algvars, oavars, gmp>>

\* store.set_group(time, values) / store.set_many(time, values)
SetGroup(time, values) ==
    /\ \A j \in 1..Len(values) : values[j][1] < n
    /\ map' = IF kind = "MultiSequence"
              THEN MultiSequence_set_group(map, n, time, values)
              ELSE TimeByteMultiSequence_set_many(map, n, time, values)
    /\ written' = WrittenAfter(written, time, values, 1)
    /\ pre' = None
    /\ writes' = writes + Cost(values)
    /\ query' = None
    /\ UNCHANGED <<kind, n, algvars, oavars, gmp>>

\* store.optimize(): the entries it clears are no longer explicit
Optimize ==
    /\ map' = IF kind = "MultiSequence"
              THEN MultiSequence_optimize(map, n)
              ELSE TimeByteMultiSequence_optimize(map, n)
    /\ written' = [t \in {k \in DOMAIN written : k \in DOMAIN map'} |-> map'[t]]
    /\ pre' = Some(map)
    /\ query' = None
    /\ UNCHANGED <<kind, n, writes, algvars, oavars, gmp>>

\* store.floor(time, index) / store.get(time, index)
FloorQuery(time, index) ==
    /\ index < n
    /\ query' = Some([time  |-> time,
                      index |-> index,
                      value |-> IF kind = "MultiSequence"
                                THEN MultiSequence_floor(map, time, index)
                                ELSE TimeByteMultiSequence_get(map, time, index)])
    /\ UNCHANGED <<kind, n, map, written, pre, writes, algvars, oavars, gmp>>

Next ==
    \/ /\ writes + 1 <= MaxWrites
       /\ \E time \in Times, index \in Chans(NumChan), value \in Vals :
             Set(time, index, value)
    \/ /\ writes + 1 <= MaxWrites
       /\ \E time \in Times, values \in Groups :
             writes + Cost(values) <= MaxWrites /\ SetGroup(time, values)
    \/ pre = None /\ Optimize

Spec == Init /\ [][Next]_vars

\* ------------------------------------------------------- claims under Spec

\* the per-channel floor query of the store type under construction
Floor(m, time, index) ==
    IF kind = "MultiSequence" THEN MultiSequence_floor(m, time, index)
    ELSE TimeByteMultiSequence_get(m, time, index)

\* queried times: every time of the model and one after the last
QueryTimes == 0..(MaxTime + 1)

\* the keys <= time at which channel c holds a written value
WrittenKeys(w, time, c) == {k \in DOMAIN w : k <= time /\ IsSome(w[k][c])}

\* the value written for c at the greatest key <= time where c was written, else 0
LastWritten(w, time, c) ==
    IF WrittenKeys(w, time, c) = {} THEN 0
    ELSE Unwrap(w[MaxOf(WrittenKeys(w, time, c))][c])

\* C1: for every store built by set / set_group, every channel c and time t, the
\* per-channel floor query returns the value written for c at the greatest key
\* <= t at which c has an explicit entry, or 0 when there is none.
C1_FloorIsLastWritten ==
    \A t \in QueryTimes, c \in Chans(NumChan) :
        Floor(map, t, c) = LastWritten(written, t, c)

\* a query whose greatest key <= t has no entry for c, answered from an earlier key
C1_Witness ==
    /\ pre = None
    /\ \E t \in QueryTimes, c \in Chans(NumChan) :
          /\ RangeToInclusive(map, t) # {}
          /\ map[MaxOf(RangeToInclusive(map, t))][c] = None
          /\ Floor(map, t, c) # 0

\* C2: MultiSequence::optimize changes no floor result: floor(t, c) after
\* optimize() equals floor(t, c) before it, for every channel and time.
C2_MsOptimizeKeepsFloor ==
    (kind = "MultiSequence" /\ IsSome(pre)) =>
        \A t \in QueryTimes, c \in Chans(NumChan) :
            MultiSequence_floor(map, t, c) = MultiSequence_floor(Unwrap(pre), t, c)

\* optimize() removed an entry of a store one of whose keys holds an entry for one
\* channel and none for another
C2_Witness ==
    /\ kind = "MultiSequence" /\ IsSome(pre)
    /\ map # Unwrap(pre)
    /\ \E t \in DOMAIN Unwrap(pre), c \in Chans(NumChan), d \in Chans(NumChan) :
          IsSome(Unwrap(pre)[t][c]) /\ Unwrap(pre)[t][d] = None

\* C3: TimeByteMultiSequence::optimize is value-exact under floor semantics:
\* get(t, i) after optimize() equals get(t, i) before it.
C3_TbOptimizeKeepsGet ==
    (kind = "TimeByteMultiSequence" /\ IsSome(pre)) =>
        \A t \in QueryTimes, i \in Chans(NumChan) :
            TimeByteMultiSequence_get(map, t, i) = TimeByteMultiSequence_get(Unwrap(pre), t, i)

\* the value held for c immediately before key t: the explicit value of c at the
\* greatest key < t where c is present, or 0
HeldBefore(m, t, c) == UnwrapOr(FindMapRev(m, {k \in DOMAIN m : k < t}, c), 0)

\* C4: after optimize() no key t and channel c has an explicit entry equal to the
\* value held for c immediately before t.
C4_OptimizeMinimal ==
    IsSome(pre) =>
        \A t \in DOMAIN map, c \in Chans(NumChan) :
            IsSome(map[t][c]) => Unwrap(map[t][c]) # HeldBefore(map, t, c)

\* C5: every key of the map has at least one present slot in its snapshot.
C5_NoEmptySnapshot ==
    \A t \in DOMAIN map : \E c \in Chans(NumChan) : IsSome(map[t][c])

\* ---------------------------------------------- the N = 8 scenario (spec 8)

\* (time, channel, value) entries inserted by the scenario, its channels and the
\* times it queries
ScenEntries == {<<0, 3, 1>>, <<5, 3, 1>>, <<10, 3, 0>>}
ScenChans == Chans(8)
ScenTimes == 0..12

ScenInit ==
    /\ kind \in Kinds
    /\ n = 8
    /\ map = EmptyMap
    /\ written = EmptyMap
    /\ pre = None
    /\ writes = 0
    /\ query = None
    /\ rhs = EmptyMap
    /\ result = None
    /\ call = None
    /\ NoOptionArray
    /\ NoGraph

ScenNext ==
    \/ /\ writes + 1 <= MaxWrites
       /\ \E e \in ScenEntries : Set(e[1], e[2], e[3])
    \/ pre = None /\ Optimize
    \/ \E time \in ScenTimes, index \in ScenChans : FloorQuery(time, index)

SpecScenario == ScenInit /\ [][ScenNext]_vars

\* the store holding exactly the three entries of the scenario
ScenStore ==
    [t \in {0, 5, 10} |-> [c \in ScenChans |->
        IF c = 3 THEN Some(IF t = 10 THEN 0 ELSE 1) ELSE None]]

\* C6: with N = 8 and entries (0,3,1), (5,3,1), (10,3,0) inserted, optimize()
\* removes the channel-3 entry at t=5 and keeps those at t=0 and t=10; afterwards
\* floor(7,3) = 1 and floor(12,3) = 0; and a floor query with no entry at or
\* before the queried time returns 0.
C6_Scenario ==
    /\ pre = Some(ScenStore) =>
          /\ 5 \in DOMAIN map => map[5][3] = None
          /\ 0 \in DOMAIN map /\ map[0][3] = Some(1)
          /\ 10 \in DOMAIN map /\ map[10][3] = Some(0)
          /\ (IsSome(query) /\ Unwrap(query).index = 3) =>
                /\ Unwrap(query).time = 7 => Unwrap(query).value = 1
                /\ Unwrap(query).time = 12 => Unwrap(query).value = 0
    /\ IsSome(query) =>
          ((\A k \in DOMAIN map :
                k <= Unwrap(query).time => map[k][Unwrap(query).index] = None)
             => Unwrap(query).value = 0)

\* the three entries inserted, optimize() called, then floor(7, 3) queried
C6_Witness ==
    /\ pre = Some(ScenStore)
    /\ IsSome(query) /\ Unwrap(query).time = 7 /\ Unwrap(query).index = 3

\* ------------------------------------------------- the algebra of two stores

\* Times of SpecAlg are 0..AlgMaxTime.
AlgMaxTime == 1
\* Total number of set calls on the two operands.
AlgMaxWrites == 2

AlgTimes == 0..AlgMaxTime

AlgInit ==
    /\ kind = "TimeByteMultiSequence"
    /\ n = NumChan
    /\ map = EmptyMap
    /\ written = EmptyMap
    /\ pre = None
    /\ writes = 0
    /\ query = None
    /\ rhs = EmptyMap
    /\ result = None
    /\ call = None
    /\ NoOptionArray
    /\ NoGraph

\* rhs.set(time, index, value)
SetRhs(time, index, value) ==
    /\ index < n
    /\ rhs' = TimeByteMultiSequence_set(rhs, n, time, index, value)
    /\ writes' = writes + 1
    /\ UNCHANGED <<kind, n, map, written, pre, query, result, call, oavars, gmp>>

\* the right operand of a call with argument arg
Operand(arg) == IF arg = "self" THEN map ELSE rhs

\* &map $op &rhs, or &map $op &map
BitOpStores(op, arg) ==
    /\ result' = Some(TimeByteMultiSequence_bitop(op, map, Operand(arg), n))
    /\ call' = Some([op |-> op, arg |-> arg, on |-> "stores", index |-> 0])
    /\ UNCHANGED <<kind, n, map, written, pre, writes, query, rhs, oavars, gmp>>

\* &map.get_sequence(index) $op &rhs.get_sequence(index) on Sequence<u8>
BitOpSequence(op, arg, index) ==
    /\ index < n
    /\ result' = Some(Sequence_bitop(op, MultiSequence_get_sequence(map, index),
                                       MultiSequence_get_sequence(Operand(arg), index)))
    /\ call' = Some([op |-> op, arg |-> arg, on |-> "Sequence", index |-> index])
    /\ UNCHANGED <<kind, n, map, written, pre, writes, query, rhs, oavars, gmp>>

\* &map.to_sequence(index) $op &rhs.to_sequence(index) on TimeByteSequence
BitOpTimeByteSequence(op, arg, index) ==
    /\ index < n
    /\ result' = Some(TimeByteSequence_bitop(op,
                          TimeByteMultiSequence_to_sequence(map, index),
                          TimeByteMultiSequence_to_sequence(Operand(arg), index)))
    /\ call' = Some([op |-> op, arg |-> arg, on |-> "TimeByteSequence", index |-> index])
    /\ UNCHANGED <<kind, n, map, written, pre, writes, query, rhs, oavars, gmp>>

\* The operands are built, then one operator is applied to them.
AlgNext ==
    \/ /\ call = None /\ writes + 1 <= AlgMaxWrites
       /\ \E time \in AlgTimes, index \in Chans(NumChan), value \in Vals :
             Set(time, index, value)
    \/ /\ call = None /\ writes + 1 <= AlgMaxWrites
       /\ \E time \in AlgTimes, index \in Chans(NumChan), value \in Vals :
             SetRhs(time, index, value)
    \/ /\ call = None
       /\ \E op \in Ops, arg \in {"rhs", "self"} : BitOpStores(op, arg)
    \/ /\ call = None
       /\ \E op \in Ops, arg \in {"rhs", "self"}, index \in Chans(NumChan) :
             BitOpSequence(op, arg, index)
    \/ /\ call = None
       /\ \E op \in Ops, arg \in {"rhs", "self"}, index \in Chans(NumChan) :
             BitOpTimeByteSequence(op, arg, index)

SpecAlg == AlgInit /\ [][AlgNext]_vars

\* --------------------------------------------------- claims under SpecAlg

\* queried times: every time of SpecAlg and one after the last
AlgQueryTimes == 0..(AlgMaxTime + 1)

\* the operands and the result of the last call
OnStores == IsSome(call) /\ Unwrap(call).on = "stores"
OnSequence == IsSome(call) /\ Unwrap(call).on = "Sequence"
OnTimeByteSequence == IsSome(call) /\ Unwrap(call).on = "TimeByteSequence"
CallOp == Unwrap(call).op
CallArg == Unwrap(call).arg
Right == Operand(Unwrap(call).arg)
LeftSeq == MultiSequence_get_sequence(map, Unwrap(call).index)
RightSeq == MultiSequence_get_sequence(Right, Unwrap(call).index)
Res == Unwrap(result)

\* the explicit (time, channel, value) entries of a store
Entries(m) ==
    {<<t, c, Unwrap(m[t][c])>> : <<t, c>> \in
        {tc \in (DOMAIN m) \X Chans(n) : IsSome(m[tc[1]][tc[2]])}}

\* C7: L op R has an explicit entry for channel c at time t exactly when t is a
\* key of L or of R and floor(L,t,c) op floor(R,t,c) is non-zero, and that
\* entry's value is floor(L,t,c) op floor(R,t,c); likewise for two sequences.
C7_OpIsOpOfFloors ==
    /\ OnStores =>
          \A t \in AlgQueryTimes, c \in Chans(n) :
              LET v == ApplyOp(CallOp, TimeByteMultiSequence_get(map, t, c),
                                       TimeByteMultiSequence_get(Right, t, c))
                  has == t \in DOMAIN Res /\ IsSome(Res[t][c])
              IN  /\ has <=> (t \in (DOMAIN map) \cup (DOMAIN Right) /\ v # 0)
                  /\ has => Unwrap(Res[t][c]) = v
    /\ (OnSequence \/ OnTimeByteSequence) =>
          \A t \in AlgQueryTimes :
              LET v == ApplyOp(CallOp, Sequence_floor(LeftSeq, t), Sequence_floor(RightSeq, t))
                  has == t \in DOMAIN Res
              IN  /\ has <=> (t \in (DOMAIN LeftSeq) \cup (DOMAIN RightSeq) /\ v # 0)
                  /\ has => Res[t] = v

\* a result entry at a key where the left operand has no entry for the channel and
\* contributes a held non-zero value
C7_Witness ==
    /\ OnStores /\ CallArg = "rhs"
    /\ \E t \in DOMAIN Res, c \in Chans(n) :
          /\ IsSome(Res[t][c])
          /\ t \notin DOMAIN map \/ map[t][c] = None
          /\ TimeByteMultiSequence_get(map, t, c) # 0

\* C8: A OR empty equals A after compaction: the same explicit entries after
\* optimize(), and the same floor value at every time.
C8_OrEmptyIsIdentity ==
    /\ (OnStores /\ CallOp = "bitor" /\ Right = EmptyMap) =>
          /\ Entries(TimeByteMultiSequence_optimize(Res, n))
                = Entries(TimeByteMultiSequence_optimize(map, n))
          /\ \A t \in AlgQueryTimes, c \in Chans(n) :
                TimeByteMultiSequence_get(Res, t, c) = TimeByteMultiSequence_get(map, t, c)
    /\ (OnSequence /\ CallOp = "bitor" /\ RightSeq = EmptyMap) =>
          /\ Sequence_optimize(Res) = Sequence_optimize(LeftSeq)
          /\ \A t \in AlgQueryTimes : Sequence_floor(Res, t) = Sequence_floor(LeftSeq, t)
    /\ (OnTimeByteSequence /\ CallOp = "bitor" /\ RightSeq = EmptyMap) =>
          /\ TimeByteSequence_optimize(Res) = TimeByteSequence_optimize(LeftSeq)
          /\ \A t \in AlgQueryTimes :
                TimeByteSequence_get_extrapolated(Res, t)
                  = TimeByteSequence_get_extrapolated(LeftSeq, t)

\* C9: A AND A equals A: the same floor value as A at every time, and the same
\* explicit entries once both are compacted.
C9_AndSelfIsIdentity ==
    /\ (OnStores /\ CallOp = "bitand" /\ CallArg = "self") =>
          /\ \A t \in AlgQueryTimes, c \in Chans(n) :
                TimeByteMultiSequence_get(Res, t, c) = TimeByteMultiSequence_get(map, t, c)
          /\ Entries(TimeByteMultiSequence_optimize(Res, n))
                = Entries(TimeByteMultiSequence_optimize(map, n))
    /\ (OnSequence /\ CallOp = "bitand" /\ CallArg = "self") =>
          /\ \A t \in AlgQueryTimes : Sequence_floor(Res, t) = Sequence_floor(LeftSeq, t)
          /\ Sequence_optimize(Res) = Sequence_optimize(LeftSeq)

\* C10: A XOR A contains no explicit entry with a non-default value at any key,
\* for every channel.
C10_XorSelfHasNoNonDefault ==
    /\ (OnStores /\ CallOp = "bitxor" /\ CallArg = "self") =>
          \A t \in DOMAIN Res, c \in Chans(n) : Res[t][c] \in {None, Some(0)}
    /\ ((OnSequence \/ OnTimeByteSequence) /\ CallOp = "bitxor" /\ CallArg = "self") =>
          \A t \in DOMAIN Res : Res[t] = 0

\* A XOR A computed for a store A that holds a non-zero entry
C10_Witness ==
    /\ OnStores /\ CallOp = "bitxor" /\ CallArg = "self"
    /\ \E t \in DOMAIN map, c \in Chans(n) : IsSome(map[t][c]) /\ Unwrap(map[t][c]) # 0

\* ------------------------------------------- typed view over byte channels
\* MultiSequenceView<u8, Dst, N> (src/src/sequence/multisequenceview.rs, the
\* same code as TORMultiSequenceView of src/sequence/src/multisequenceview.rs)

\* Typed slots of the viewed store: it has ViewElems * ElemSize byte channels.
ViewElems == 2
\* Times of SpecView are 0..ViewMaxTime.
ViewMaxTime == 1
\* Number of set calls on the viewed store.
ViewMaxWrites == 2

\* number of values of a u8
ByteBase == 256
\* size_of::<Dst>() for the u16 the view's test instantiates
ElemSize == 2

\* byte order of the target the program is built for
Endians == {"little", "big"}

RECURSIVE Pow(_, _)
Pow(b, e) == IF e = 0 THEN 1 ELSE b * Pow(b, e - 1)

\* memory offset -> significance of the byte stored there
Significance(endian, i) == IF endian = "little" THEN i ELSE ElemSize - 1 - i

\* transmute_copy(&bytes): the Dst whose memory is bytes[0..ElemSize)
RECURSIVE transmute_copy(_, _, _)
transmute_copy(endian, bytes, i) ==
    IF i = ElemSize THEN 0
    ELSE bytes[i] * Pow(ByteBase, Significance(endian, i))
         + transmute_copy(endian, bytes, i + 1)

\* the memory of a Dst: the bytes a caller writes to store value
to_ne_bytes(endian, value) ==
    [i \in 0..(ElemSize - 1) |->
        (value \div Pow(ByteBase, Significance(endian, i))) % ByteBase]

\* for i in 0..elem_size { bytes[i] = *arr.get(start + i)? }, a mutant reading
\* an absent byte as 0
RECURSIVE CollectBytes_absent_as_zero(_, _, _, _)
CollectBytes_absent_as_zero(arr, start, i, bytes) ==
    IF i = ElemSize THEN Some(bytes)
    ELSE CollectBytes_absent_as_zero(arr, start, i + 1,
             [bytes EXCEPT ![i] = UnwrapOr(OptionArray_get(arr, start + i), 0)])

\* for i in 0..elem_size { bytes[i] = *arr.get(start + i)? }: None as soon as
\* one byte is absent
RECURSIVE CollectBytes(_, _, _, _)
CollectBytes(arr, start, i, bytes) ==
    IF i = ElemSize THEN Some(bytes)
    ELSE IF OptionArray_get(arr, start + i) = None THEN None
    ELSE CollectBytes(arr, start, i + 1,
             [bytes EXCEPT ![i] = Unwrap(OptionArray_get(arr, start + i))])

ZeroBytes == [i \in 0..(ElemSize - 1) |-> 0]

\* the closure of get_typed / floor_typed: the Dst of one snapshot, if complete
SnapshotTyped(endian, arr, start) ==
    LET bytes == CollectBytes(arr, start, 0, ZeroBytes)
    IN  IF bytes = None THEN None
        ELSE Some(transmute_copy(endian, Unwrap(bytes), 0))

\* MultiSequenceView::get_typed
MultiSequenceView_get_typed(endian, m, nn, time, index) ==
    LET start == index * ElemSize
    IN  IF start + ElemSize > nn THEN None
        ELSE IF time \notin DOMAIN m THEN None
        ELSE SnapshotTyped(endian, m[time], start)

\* .rev().find_map(closure) over the snapshots at keys
RECURSIVE FindMapRevTyped(_, _, _, _)
FindMapRevTyped(endian, m, keys, start) ==
    IF keys = {} THEN None
    ELSE LET k == MaxOf(keys)
             v == SnapshotTyped(endian, m[k], start)
         IN  IF IsSome(v) THEN v
             ELSE FindMapRevTyped(endian, m, keys \ {k}, start)

\* what a call returns: a value, or it panics
Returned(v) == [panic |-> FALSE, value |-> v]
Panicked == [panic |-> TRUE]

\* MultiSequenceView::floor_typed
MultiSequenceView_floor_typed(endian, m, nn, time, index) ==
    LET start == index * ElemSize
    IN  IF start + ElemSize > nn THEN Panicked
        ELSE Returned(UnwrapOr(
                 FindMapRevTyped(endian, m, RangeToInclusive(m, time), start), 0))

ViewTimes == 0..ViewMaxTime
\* queried times: every time of SpecView and one after the last
ViewQueryTimes == 0..(ViewMaxTime + 1)
\* queried typed indices: every slot of the view and the first one past the end
ViewIndices == 0..ViewElems

ViewInit ==
    /\ kind = "MultiSequence"
    /\ n = ViewElems * ElemSize
    /\ map = EmptyMap
    /\ written = EmptyMap
    /\ pre = None
    /\ writes = 0
    /\ query = None
    /\ rhs = EmptyMap
    /\ result = None
    /\ call = None
    /\ NoOptionArray
    /\ NoGraph

\* store.view_as::<Dst>().get_typed(time, index) on a target of byte order endian
GetTyped(endian, time, index) ==
    /\ call' = Some([op |-> "get_typed", endian |-> endian,
                     time |-> time, index |-> index])
    /\ result' = Some(MultiSequenceView_get_typed(endian, map, n, time, index))
    /\ UNCHANGED <<kind, n, map, written, pre, writes, query, rhs, oavars, gmp>>

\* store.view_as::<Dst>().floor_typed(time, index)
FloorTyped(endian, time, index) ==
    /\ call' = Some([op |-> "floor_typed", endian |-> endian,
                     time |-> time, index |-> index])
    /\ result' = Some(MultiSequenceView_floor_typed(endian, map, n, time, index))
    /\ UNCHANGED <<kind, n, map, written, pre, writes, query, rhs, oavars, gmp>>

\* tests::test0: MultiSequence::<u8, 16>::new() viewed as u16,
\* typed_view.floor_typed(127, 8)
Test0(endian) ==
    /\ call' = Some([op |-> "test0", endian |-> endian, time |-> 127, index |-> 8])
    /\ result' = Some(MultiSequenceView_floor_typed(endian, EmptyMap, 16, 127, 8))
    /\ UNCHANGED <<kind, n, map, written, pre, writes, query, rhs, oavars, gmp>>

\* The byte channels are written, then one call is made on the view.
ViewNext ==
    \/ /\ call = None /\ writes + 1 <= ViewMaxWrites
       /\ \E time \in ViewTimes, index \in Chans(ViewElems * ElemSize), value \in Vals :
             Set(time, index, value)
    \/ /\ call = None
       /\ \E endian \in Endians, time \in ViewQueryTimes, index \in ViewIndices :
             GetTyped(endian, time, index)
    \/ /\ call = None
       /\ \E endian \in Endians, time \in ViewQueryTimes, index \in ViewIndices :
             FloorTyped(endian, time, index)
    \/ /\ call = None
       /\ \E endian \in Endians : Test0(endian)

SpecView == ViewInit /\ [][ViewNext]_vars

\* --------------------------------------------------- claims under SpecView

\* the call made on the view
ViewCall == Unwrap(call)
\* the bytes written at ViewCall.time (None: no explicit entry)
WrittenRow ==
    IF ViewCall.time \in DOMAIN written THEN written[ViewCall.time]
    ELSE [c \in Chans(n) |-> None]
\* the typed values whose bytes the stores of SpecView can hold
ByteTuples == [0..(ElemSize - 1) -> Vals]
TypedVals == {transmute_copy("little", bs, 0) : bs \in ByteTuples}

\* C11: reinterpret round-trip. When all ElemSize bytes of a typed value v were
\* written into the byte channels index*ElemSize .. index*ElemSize+ElemSize-1 at
\* time t, get_typed(t, index) returns exactly v; when any one of those byte
\* channels has no explicit entry at t, get_typed(t, index) returns nothing.
C11_GetTypedRoundTrip ==
    (IsSome(call) /\ ViewCall.op = "get_typed" /\ ViewCall.index < ViewElems) =>
        LET start == ViewCall.index * ElemSize
        IN  /\ \A v \in TypedVals :
                  (\A i \in 0..(ElemSize - 1) :
                       WrittenRow[start + i] = Some(to_ne_bytes(ViewCall.endian, v)[i]))
                  => Unwrap(result) = Some(v)
            /\ (\E i \in 0..(ElemSize - 1) : WrittenRow[start + i] = None)
                  => Unwrap(result) = None

\* get_typed returned a value whose bytes differ, so that their order matters
C11_Witness ==
    /\ IsSome(call) /\ ViewCall.op = "get_typed" /\ ViewCall.index = 1
    /\ result = Some(Some(ByteBase))

\* C12: floor_typed(t, k) is per-byte floor-then-assemble: byte j of the value
\* it returns is the floor(t, k*ElemSize + j) of that byte channel alone, so
\* the bytes of one value may come from different keys.
C12_FloorTypedPerByte ==
    (IsSome(call) /\ ViewCall.op = "floor_typed" /\ ViewCall.index < ViewElems) =>
        /\ Unwrap(result).panic = FALSE
        /\ \A j \in 0..(ElemSize - 1) :
              to_ne_bytes(ViewCall.endian, Unwrap(result).value)[j]
                 = MultiSequence_floor(map, ViewCall.time, ViewCall.index * ElemSize + j)

\* C17: the call the view's test makes, floor_typed(127, 8) on an empty store
\* of 16 byte channels viewed as a 2-byte type, returns normally, yielding the
\* default value.
C17_Test0Returns ==
    (IsSome(call) /\ ViewCall.op = "test0") => result = Some(Returned(0))

\* --------------------------------------- data_to_functions (src/src/lib.rs)

\* Longest sample sequence passed to data_to_functions.
EncMaxLen == 4
\* Sample times are 0..EncMaxTime.
EncMaxTime == 4
\* Sample states are 0..EncMaxState.
EncMaxState == 2
\* max_events_per_func is 1..EncMaxCap.
EncMaxCap == 2

\* diffs.entry(diff).and_modify(|e| e.push(time)).or_insert(vec![time])
PushDiff(diffs, diff, time) ==
    MapPut(diffs, diff,
           IF diff \in DOMAIN diffs THEN Append(diffs[diff], time) ELSE <<time>>)

\* the function string built from the buckets `diffs` and the closing term
\* "-{prev_data}*step({time},x)": its terms (a HashMap is iterated in no
\* particular order, and the sum does not depend on it)
Function(diffs, prev_data, time) ==
    [buckets |-> diffs, closing |-> [coef |-> prev_data, time |-> time]]

\* the loop of data_to_functions that carries prev_data over a close
RECURSIVE data_to_functions_loop_keeps_prev(_, _, _, _, _, _, _)
data_to_functions_loop_keeps_prev(data_changes, max_events_per_func, n0, i, prev_data, diffs, functions) ==
    IF n0 > Len(data_changes) THEN functions
    ELSE LET time == data_changes[n0][1]
             data_n == data_changes[n0][2]
             emit == i + 1 > max_events_per_func \/ n0 = Len(data_changes)
             kept == IF emit THEN EmptyMap ELSE diffs
         IN  data_to_functions_loop_keeps_prev(
                 data_changes, max_events_per_func, n0 + 1,
                 IF emit THEN 0 ELSE i + 1,
                 data_n,
                 PushDiff(kept, data_n - prev_data, time),
                 IF emit THEN Append(functions, Function(diffs, prev_data, time))
                 ELSE functions)

\* the loop of data_to_functions from sample n0 (1-based) on
RECURSIVE data_to_functions_loop(_, _, _, _, _, _, _)
data_to_functions_loop(data_changes, max_events_per_func, n0, i, prev_data, diffs, functions) ==
    IF n0 > Len(data_changes) THEN functions
    ELSE LET time == data_changes[n0][1]
             data_n == data_changes[n0][2]
             emit == i + 1 > max_events_per_func \/ n0 = Len(data_changes)
             prev == IF emit THEN 0 ELSE prev_data
             kept == IF emit THEN EmptyMap ELSE diffs
         IN  data_to_functions_loop(
                 data_changes, max_events_per_func, n0 + 1,
                 IF emit THEN 0 ELSE i + 1,
                 data_n,
                 PushDiff(kept, data_n - prev, time),
                 IF emit THEN Append(functions, Function(diffs, prev_data, time))
                 ELSE functions)

\* data_to_functions
data_to_functions(data_changes, max_events_per_func) ==
    data_to_functions_loop(data_changes, max_events_per_func,
                           1, 0, 0, EmptyMap, <<>>)

\* the samples of the encoder scenario
EncScenario == <<<<0, 1>>, <<1, 2>>, <<2, 3>>>>

\* time-ordered, deduplicated sample sequences
IsSamples(dc) ==
    /\ \A k \in 1..(Len(dc) - 1) : dc[k][1] < dc[k + 1][1] /\ dc[k][2] # dc[k + 1][2]
EncSamples ==
    {EncScenario} \cup
    UNION {{dc \in [1..len -> (0..EncMaxTime) \X (0..EncMaxState)] : IsSamples(dc)}
              : len \in 0..EncMaxLen}

EncInit ==
    /\ kind = "MultiSequence"
    /\ n = NumChan
    /\ map = EmptyMap
    /\ written = EmptyMap
    /\ pre = None
    /\ writes = 0
    /\ query = None
    /\ rhs = EmptyMap
    /\ result = None
    /\ \E dc \in EncSamples, mx \in 1..EncMaxCap :
          call = Some([op |-> "data_to_functions",
                       data_changes |-> dc, max_events_per_func |-> mx])
    /\ NoOptionArray
    /\ NoGraph

\* data_to_functions(&data_changes, max_events_per_func)
DataToFunctions ==
    /\ result = None
    /\ result' = Some(data_to_functions(Unwrap(call).data_changes,
                                        Unwrap(call).max_events_per_func))
    /\ UNCHANGED <<kind, n, map, written, pre, writes, query, rhs, call, oavars, gmp>>

EncNext == DataToFunctions

SpecEnc == EncInit /\ [][EncNext]_vars

\* ---------------------------------------------------- claims under SpecEnc

RECURSIVE SumOver(_, _)
\* the sum of the integers f[x] over the domain of f
SumOver(f, D) ==
    IF D = {} THEN 0
    ELSE LET x == CHOOSE y \in D : TRUE IN f[x] + SumOver(f, D \ {x})

\* step(t, x): 1 from t on, 0 before
Step(t, x) == IF x >= t THEN 1 ELSE 0

\* number of step(t,x) occurrences in the delta buckets of a function
TermCount(f) ==
    SumOver([d \in DOMAIN f.buckets |-> Len(f.buckets[d])], DOMAIN f.buckets)

\* the value of a function at x
EvalFunction(f, x) ==
    SumOver([d \in DOMAIN f.buckets |->
                d * SumOver([j \in 1..Len(f.buckets[d]) |-> Step(f.buckets[d][j], x)],
                            1..Len(f.buckets[d]))],
            DOMAIN f.buckets)
    - f.closing.coef * Step(f.closing.time, x)

\* the sum of the emitted functions at x
EvalAll(fs, x) == SumOver([j \in 1..Len(fs) |-> EvalFunction(fs[j], x)], 1..Len(fs))

EncCall == Unwrap(call)
Emitted == Unwrap(result)

\* C13: encoder term bound. Every function data_to_functions emits, the first
\* and every later one, holds at most max_events_per_func bucket entries.
C13_TermBound ==
    IsSome(result) =>
        \A j \in 1..Len(Emitted) : TermCount(Emitted[j]) <= EncCall.max_events_per_func

\* C14: encoder exactness. The sum of the emitted functions equals s_k at
\* x = t_k for every sample (t_k, s_k), the last one and a single one included.
C14_Exact ==
    IsSome(result) =>
        \A k \in 1..Len(EncCall.data_changes) :
            EvalAll(Emitted, EncCall.data_changes[k][1]) = EncCall.data_changes[k][2]

\* C15: with max_events_per_func = 2 the samples [(0,1),(1,2),(2,3)] give at
\* least two functions, each ending with a closing term; an input with more
\* samples than the cap gives more than one function; an empty input gives none.
C15_Split ==
    IsSome(result) =>
        /\ (EncCall.data_changes = EncScenario /\ EncCall.max_events_per_func = 2) =>
              /\ Len(Emitted) >= 2
              /\ \A j \in 1..Len(Emitted) : "closing" \in DOMAIN Emitted[j]
        /\ Len(EncCall.data_changes) > EncCall.max_events_per_func => Len(Emitted) > 1
        /\ EncCall.data_changes = <<>> => Emitted = <<>>

\* ----------------------------------- generate_music_player (src/src/lib.rs)
\* The part that builds `blocks` (lines 196-345). Of the input it depends on
\* used_keys_count, notes_per_value, and on how many functions
\* data_to_functions returns for each channel and for the tempo events.

\* used_keys_count is 0..GmpMaxKeys.
GmpMaxKeys == 2
\* notes_per_value is 1..GmpMaxNotes.
GmpMaxNotes == 1

\* u16::MAX
U16Max == 65535

\* a wrapping conversion, `x as u16`
try_into_u16_wrapping(x) == Some(x % (U16Max + 1))

\* (x).try_into()? for u16: None stands for Err(TryFromIntError)
try_into_u16(x) == IF x <= U16Max THEN Some(x) ELSE None

\* ((used_keys_count.checked_sub(1).unwrap_or(0)) / notes_per_value) + 1
channels_count(used_keys_count, notes_per_value) ==
    ((IF used_keys_count >= 1 THEN used_keys_count - 1 ELSE 0) \div notes_per_value) + 1

\* the five blocks that are always present, then `for c in 0..channels_count`
GmpInit ==
    /\ kind = "MultiSequence"
    /\ n = NumChan
    /\ map = EmptyMap
    /\ written = EmptyMap
    /\ pre = None
    /\ writes = 0
    /\ query = None
    /\ rhs = EmptyMap
    /\ result = None
    /\ call = None
    /\ NoOptionArray
    /\ \E used \in 0..GmpMaxKeys, npv \in 1..GmpMaxNotes :
          gmp = [pc |-> "channel", blocks_len |-> 5, c |-> 0, n |-> 0,
                 used_keys_count |-> used, notes_per_value |-> npv,
                 channels_count |-> channels_count(used, npv),
                 alloc |-> None]

\* blocks.push(Block {..}); let index: u16 = (blocks.len() - 1).try_into()?;
\* then the function goes on at pc `then` with the loop counters c, n. On Err
\* the function returns it and `blocks` is dropped.
PushBlock(then, c, nn) ==
    LET position == gmp.blocks_len
        index == try_into_u16(position)
    IN  IF IsSome(index)
        THEN /\ gmp' = [gmp EXCEPT !.pc = then, !.blocks_len = position + 1,
                                   !.c = c, !.n = nn,
                                   !.alloc = Some([index |-> Unwrap(index),
                                                   position |-> position])]
             /\ result' = None
        ELSE /\ gmp' = [gmp EXCEPT !.pc = "err", !.blocks_len = 0, !.alloc = None]
             /\ result' = Some([ok |-> FALSE, error |-> "FromInt"])

GmpFrame == UNCHANGED <<kind, n, map, written, pre, writes, query, rhs, call, oavars>>

\* lines 249-261: the decoder block of channel c and decoder_index
PushDecoder ==
    /\ gmp.pc = "channel"
    /\ PushBlock("decoder_input", gmp.c, 0)
    /\ GmpFrame

\* lines 263-268: the decoder's input block and decoder_input_index
PushDecoderInput ==
    /\ gmp.pc = "decoder_input"
    /\ PushBlock("tone_gen", gmp.c, 0)
    /\ GmpFrame

\* pc after iteration nn of `for n in 0..notes_per_value`
AfterToneGen(nn) == IF nn + 1 = gmp.notes_per_value THEN "functions" ELSE "tone_gen"

\* lines 270-290: one iteration of `for n in 0..notes_per_value`: a tone
\* generator for a used key, whose index goes into the decoder's connections
ToneGen ==
    /\ gmp.pc = "tone_gen"
    /\ IF ~(gmp.c * gmp.notes_per_value + gmp.n < gmp.used_keys_count)
       THEN /\ gmp' = [gmp EXCEPT !.pc = AfterToneGen(gmp.n), !.n = gmp.n + 1]
            /\ UNCHANGED result
       ELSE PushBlock(AfterToneGen(gmp.n), gmp.c, gmp.n + 1)
    /\ GmpFrame

\* lines 294-314: one iteration of `for f in functions`: the data block of a
\* function of channel c, whose index goes into block 4's connections
PushDataBlock ==
    /\ gmp.pc = "functions"
    /\ PushBlock("functions", gmp.c, gmp.n)
    /\ GmpFrame

\* the functions of channel c are exhausted: next c, or the tempo blocks
EndChannel ==
    /\ gmp.pc = "functions"
    /\ gmp' = [gmp EXCEPT !.c = gmp.c + 1,
                          !.pc = IF gmp.c + 1 < gmp.channels_count
                                 THEN "channel" ELSE "tempo_first"]
    /\ UNCHANGED result
    /\ GmpFrame

\* lines 318-339: one iteration of `for f in functions` over the tempo
\* functions (tempo_events holds two entries at least, so there is a first)
PushTempoBlock ==
    /\ gmp.pc \in {"tempo_first", "tempo"}
    /\ PushBlock("tempo", gmp.c, gmp.n)
    /\ GmpFrame

\* lines 341-344: Ok(Building { roots, blocks })
ReturnBuilding ==
    /\ gmp.pc = "tempo"
    /\ gmp' = [gmp EXCEPT !.pc = "ok"]
    /\ result' = Some([ok |-> TRUE, blocks |-> gmp.blocks_len])
    /\ GmpFrame

GmpNext ==
    \/ PushDecoder
    \/ PushDecoderInput
    \/ ToneGen
    \/ PushDataBlock
    \/ EndChannel
    \/ PushTempoBlock
    \/ ReturnBuilding

SpecGraph == GmpInit /\ [][GmpNext]_vars

\* -------------------------------------------------- claims under SpecGraph

\* C16: graph index bound. generate_music_player returns an error and no graph,
\* or a graph of at most 65536 nodes; every index it allocates, which is what it
\* stores in the out-edge lists, is the exact position of the node it was
\* allocated for; no node is ever given a position above 65535 without the
\* run ending in the error.
C16_IndexBound ==
    /\ IsSome(gmp.alloc) =>
          /\ Unwrap(gmp.alloc).index = Unwrap(gmp.alloc).position
          /\ Unwrap(gmp.alloc).position <= U16Max
    /\ gmp.pc # "err" => gmp.blocks_len <= U16Max + 1
    /\ gmp.pc = "ok" => /\ result = Some([ok |-> TRUE, blocks |-> gmp.blocks_len])
                        /\ gmp.blocks_len <= U16Max + 1
    /\ gmp.pc = "err" => /\ result = Some([ok |-> FALSE, error |-> "FromInt"])
                         /\ gmp.blocks_len = 0
    /\ gmp.pc \notin {"ok", "err"} => result = None

\* an input needing a node at position 65536 ended in the error
C16_Witness == gmp.pc = "err"

\* ------------------------- OptionArray<T, N> (src/option_array/src/lib.rs)

\* Capacity N of the OptionArray of SpecOptionArray (not a multiple of 8, and
\* more than one flag byte).
OaN == 9
\* Number of mutating calls made on the OptionArray.
OaMaxOps == 2

\* bits of a flag byte
ByteBits == 8

\* flag_bytes
flag_bytes(nn) == (nn + 7) \div ByteBits

\* the content of a slot no value was ever written to
Uninit == "uninit"

\* 1 << bit
Shl1(bit) == Pow(2, bit)

\* OptionArray::set_flag that sets the bit whatever `present` is
set_flag_always_sets(fl, index, present) ==
    [fl EXCEPT ![index \div ByteBits] =
        BitOr(fl[index \div ByteBits], Shl1(index % ByteBits))]

\* OptionArray::set_flag
set_flag(fl, index, present) ==
    LET byte_index == index \div ByteBits
        bit_index == index % ByteBits
    IN  IF present
        THEN [fl EXCEPT ![byte_index] = BitOr(fl[byte_index], Shl1(bit_index))]
        ELSE [fl EXCEPT ![byte_index] =
                 BitAnd(fl[byte_index], (ByteBase - 1) - Shl1(bit_index))]

\* OptionArray::is_present
is_present(fl, index) ==
    BitAnd(fl[index \div ByteBits], Shl1(index % ByteBits)) # 0

\* OptionArray::get
get(fl, dt, index) == IF is_present(fl, index) THEN Some(dt[index]) ELSE None

\* u8::count_ones
RECURSIVE count_ones(_)
count_ones(b) == IF b = 0 THEN 0 ELSE (b % 2) + count_ones(b \div 2)

\* the sum of count_ones over the flag bytes fl[from..to)
RECURSIVE CountFullBytes(_, _, _)
CountFullBytes(fl, from, to) ==
    IF from >= to THEN 0
    ELSE count_ones(fl[from]) + CountFullBytes(fl, from + 1, to)

\* OptionArray::len without the mask on the last partial byte
len_unmasked(fl, nn) ==
    CountFullBytes(fl, 0, flag_bytes(nn))

\* OptionArray::len
len(fl, nn) ==
    LET full_bytes == nn \div ByteBits
        rem_bits == nn % ByteBits
    IN  CountFullBytes(fl, 0, full_bytes)
        + (IF rem_bits # 0
           THEN count_ones(BitAnd(fl[full_bytes], Shl1(rem_bits) - 1))
           ELSE 0)

\* flags.fill(b)
FlagsFill(nn, b) == [k \in 0..(flag_bytes(nn) - 1) |-> b]

\* the arrays a full OptionArray is converted from: slot i holds (i + v) mod
\* the number of values
FullArrays == {[i \in Chans(OaN) |-> (i + v) % (MaxVal + 1)] : v \in Vals}

\* OptionArray::new(), or OptionArray::from(array) for a full array
OaInit ==
    /\ kind = "MultiSequence"
    /\ n = OaN
    /\ map = EmptyMap
    /\ written = EmptyMap
    /\ pre = None
    /\ writes = 0
    /\ query = None
    /\ rhs = EmptyMap
    /\ result = None
    /\ call = None
    /\ NoGraph
    /\ \/ /\ flags = FlagsFill(OaN, 0)
          /\ data = [i \in Chans(OaN) |-> Uninit]
          /\ shadow = [i \in Chans(OaN) |-> None]
       \/ \E array \in FullArrays :
             /\ flags = FlagsFill(OaN, ByteBase - 1)
             /\ data = array
             /\ shadow = [i \in Chans(OaN) |-> Some(array[i])]

OaFrame == UNCHANGED <<kind, n, map, written, pre, query, rhs, gmp>>

\* array.insert(index, value)
Insert(index, value) ==
    /\ index < n
    /\ data' = [data EXCEPT ![index] = value]
    /\ flags' = set_flag(flags, index, TRUE)
    /\ shadow' = [shadow EXCEPT ![index] = Some(value)]
    /\ call' = Some([op |-> "insert", index |-> index])
    /\ result' = None
    /\ writes' = writes + 1
    /\ OaFrame

\* array.remove(index): the value read out of the slot stays in its memory
Remove(index) ==
    /\ index < n
    /\ IF ~is_present(flags, index)
       THEN /\ UNCHANGED <<flags, data>>
            /\ result' = Some(None)
       ELSE /\ flags' = set_flag(flags, index, FALSE)
            /\ UNCHANGED data
            /\ result' = Some(Some(data[index]))
    /\ shadow' = [shadow EXCEPT ![index] = None]
    /\ call' = Some([op |-> "remove", index |-> index, held |-> shadow[index]])
    /\ writes' = writes + 1
    /\ OaFrame

\* array.clear()
Clear ==
    /\ flags' = FlagsFill(n, 0)
    /\ UNCHANGED data
    /\ shadow' = [i \in Chans(n) |-> None]
    /\ call' = Some([op |-> "clear", index |-> 0])
    /\ result' = None
    /\ writes' = writes + 1
    /\ OaFrame

\* array.fill(value)
Fill(value) ==
    /\ data' = [i \in Chans(n) |-> value]
    /\ flags' = FlagsFill(n, ByteBase - 1)
    /\ shadow' = [i \in Chans(n) |-> Some(value)]
    /\ call' = Some([op |-> "fill", index |-> 0])
    /\ result' = None
    /\ writes' = writes + 1
    /\ OaFrame

\* array.get_or_insert_with(index, || value)
GetOrInsertWith(index, value) ==
    /\ index < n
    /\ IF ~is_present(flags, index)
       THEN /\ data' = [data EXCEPT ![index] = value]
            /\ flags' = set_flag(flags, index, TRUE)
            /\ shadow' = [shadow EXCEPT ![index] = Some(value)]
       ELSE UNCHANGED <<flags, data, shadow>>
    /\ call' = Some([op |-> "get_or_insert_with", index |-> index])
    /\ result' = Some(data'[index])
    /\ writes' = writes + 1
    /\ OaFrame

\* array.get_or_insert(index, value)
GetOrInsert(index, value) ==
    /\ index < n
    /\ flags' = set_flag(flags, index, TRUE)
    /\ data' = [data EXCEPT ![index] = value]
    /\ shadow' = [shadow EXCEPT ![index] = Some(value)]
    /\ call' = Some([op |-> "get_or_insert", index |-> index, value |-> value])
    /\ result' = Some(data'[index])
    /\ writes' = writes + 1
    /\ OaFrame

\* insert, remove, clear, fill and get_or_insert_with in any order
OaNext ==
    \/ /\ writes < OaMaxOps
       /\ \E index \in Chans(OaN), value \in Vals : Insert(index, value)
    \/ /\ writes < OaMaxOps
       /\ \E index \in Chans(OaN) : Remove(index)
    \/ /\ writes < OaMaxOps
       /\ Clear
    \/ /\ writes < OaMaxOps
       /\ \E value \in Vals : Fill(value)
    \/ /\ writes < OaMaxOps
       /\ \E index \in Chans(OaN), value \in Vals : GetOrInsertWith(index, value)

SpecOptionArray == OaInit /\ [][OaNext]_vars

\* ... and get_or_insert
OaAllNext ==
    \/ OaNext
    \/ /\ writes < OaMaxOps
       /\ \E index \in Chans(OaN), value \in Vals : GetOrInsert(index, value)

SpecOptionArrayAll == OaInit /\ [][OaAllNext]_vars

\* ------------------- claims under SpecOptionArray and SpecOptionArrayAll

\* C18: get_or_insert(i, v) initializes slot i only if it is absent. When the
\* slot holds w the call returns w, the slot still holds w, and no other slot
\* or presence bit changes; when the slot is absent it becomes present with v.
C18_GetOrInsertKeeps ==
    [][(writes' = writes + 1 /\ Unwrap(call').op = "get_or_insert") =>
          LET i == Unwrap(call').index
          IN  IF is_present(flags, i)
              THEN /\ result' = Some(data[i])
                   /\ get(flags', data', i) = Some(data[i])
                   /\ \A j \in Chans(n) : get(flags', data', j) = get(flags, data, j)
                   /\ flags' = flags
              ELSE /\ get(flags', data', i) = Some(Unwrap(call').value)
                   /\ \A j \in Chans(n) \ {i} :
                         get(flags', data', j) = get(flags, data, j)]_vars

\* C19: after any sequence of insert, remove, clear, fill and
\* get_or_insert_with, slot i is present exactly when the latest call affecting
\* it wrote a value, get(i) returns that value, remove(i) returns it once and
\* leaves the slot absent (a second remove returns nothing), and clear()
\* leaves every slot absent.
C19_SlotsFollowCalls ==
    /\ \A i \in Chans(n) :
          /\ is_present(flags, i) <=> IsSome(shadow[i])
          /\ get(flags, data, i) = shadow[i]
    /\ (IsSome(call) /\ Unwrap(call).op = "remove") =>
          /\ result = Some(Unwrap(call).held)
          /\ get(flags, data, Unwrap(call).index) = None
    /\ (IsSome(call) /\ Unwrap(call).op = "clear") =>
          \A i \in Chans(n) : ~is_present(flags, i) /\ get(flags, data, i) = None

\* a remove returned the value held by the last slot and left it absent, on
\* an array that was created empty
C19_Witness ==
    /\ IsSome(call) /\ Unwrap(call).op = "remove"
    /\ Unwrap(call).index = OaN - 1
    /\ result = Some(Some(1))
    /\ \A i \in Chans(n) : ~is_present(flags, i)

\* C20: len() equals the number of indices i < N with is_present(i), also when
\* N is not a multiple of 8 and fill() or the conversion from a full array set
\* every bit of the flag bytes, the padding bits beyond N included.
C20_LenCountsPresent ==
    len(flags, n) = Cardinality({i \in Chans(n) : is_present(flags, i)})

\* every bit of the last flag byte is set, its padding bits included, and a slot
\* was removed since
C20_Witness ==
    /\ n % ByteBits # 0
    /\ flags[flag_bytes(n) - 1] = ByteBase - 1
    /\ len(flags, n) = n - 1

\* ------------------------- in-place operators on single-channel sequences

\* BTreeMap::remove
MapRemove(m, time) == [k \in (DOMAIN m) \ {time} |-> m[k]]

\* the loop of impl_bitwise_assign_sequence over the keys `times` still to
\* visit, in ascending order: self is read and rewritten as it goes
RECURSIVE Sequence_bitop_assign_loop(_, _, _, _)
Sequence_bitop_assign_loop(op, self, other, times) ==
    IF times = {} THEN self
    ELSE LET time == MinOf(times)
             val_self == Sequence_floor(self, time)
             val_rhs == Sequence_floor(other, time)
             res == ApplyOp(op, val_self, val_rhs)
         IN  Sequence_bitop_assign_loop(op,
                 IF res # 0 THEN MapPut(self, time, res) ELSE MapRemove(self, time),
                 other, times \ {time})

\* impl_bitwise_assign_sequence: Sequence $op= &Sequence (other is rhs)
Sequence_bitop_assign(op, self, other) ==
    Sequence_bitop_assign_loop(op, self, other, (DOMAIN self) \cup (DOMAIN other))

\* the loop of impl_bitwise_assign_time_sequence over the keys `times`
RECURSIVE TimeByteSequence_bitop_assign_loop(_, _, _, _)
TimeByteSequence_bitop_assign_loop(op, self, other, times) ==
    IF times = {} THEN self
    ELSE LET time == MinOf(times)
             val_self == TimeByteSequence_get_extrapolated(self, time)
             val_rhs == TimeByteSequence_get_extrapolated(other, time)
             res == ApplyOp(op, val_self, val_rhs)
         IN  TimeByteSequence_bitop_assign_loop(op,
                 IF res # 0 THEN MapPut(self, time, res) ELSE MapRemove(self, time),
                 other, times \ {time})

\* impl_bitwise_assign_time_sequence: TimeByteSequence $op= &TimeByteSequence
TimeByteSequence_bitop_assign(op, self, other) ==
    TimeByteSequence_bitop_assign_loop(op, self, other, (DOMAIN self) \cup (DOMAIN other))

\* let mut a = map.get_sequence(index); a $op= &rhs.get_sequence(index)
BitOpAssignSequence(op, index) ==
    /\ index < n
    /\ result' = Some(Sequence_bitop_assign(op, MultiSequence_get_sequence(map, index),
                                                MultiSequence_get_sequence(rhs, index)))
    /\ call' = Some([op |-> op, arg |-> "rhs", on |-> "Sequence_assign", index |-> index])
    /\ UNCHANGED <<kind, n, map, written, pre, writes, query, rhs, oavars, gmp>>

\* let mut a = map.to_sequence(index); a $op= &rhs.to_sequence(index)
BitOpAssignTimeByteSequence(op, index) ==
    /\ index < n
    /\ result' = Some(TimeByteSequence_bitop_assign(op,
                          TimeByteMultiSequence_to_sequence(map, index),
                          TimeByteMultiSequence_to_sequence(rhs, index)))
    /\ call' = Some([op |-> op, arg |-> "rhs", on |-> "TimeByteSequence_assign",
                     index |-> index])
    /\ UNCHANGED <<kind, n, map, written, pre, writes, query, rhs, oavars, gmp>>

\* !val on a u8
BitNot(val) == (ByteBase - 1) - val

\* the loop of Not for &TimeByteMultiSequence over the keys `times` still to
\* visit, in ascending order
RECURSIVE TimeByteMultiSequence_not_loop(_, _, _, _, _)
TimeByteMultiSequence_not_loop(self, nn, times, last_values, res) ==
    IF times = {} THEN res
    ELSE LET time == MinOf(times)
             arr_self == MapGet(self, time)
             val(i) == HeldOr(arr_self, i, last_values)
             arr_result == [i \in Chans(nn) |->
                               IF BitNot(val(i)) # 0 THEN Some(BitNot(val(i))) ELSE None]
         IN  TimeByteMultiSequence_not_loop(self, nn, times \ {time},
                 [i \in Chans(nn) |-> val(i)],
                 MapPut(res, time, arr_result))

\* Not for &TimeByteMultiSequence
TimeByteMultiSequence_not(self, nn) ==
    TimeByteMultiSequence_not_loop(self, nn, DOMAIN self,
                                   [i \in Chans(nn) |-> 0], EmptyMap)

\* !&map
NotStore ==
    /\ result' = Some(TimeByteMultiSequence_not(map, n))
    /\ call' = Some([op |-> "not", arg |-> "self", on |-> "stores", index |-> 0])
    /\ UNCHANGED <<kind, n, map, written, pre, writes, query, rhs, oavars, gmp>>

\* The operands are built, then one in-place operator or NOT is applied.
AssignNext ==
    \/ /\ call = None /\ writes + 1 <= AlgMaxWrites
       /\ \E time \in AlgTimes, index \in Chans(NumChan), value \in Vals :
             Set(time, index, value)
    \/ /\ call = None /\ writes + 1 <= AlgMaxWrites
       /\ \E time \in AlgTimes, index \in Chans(NumChan), value \in Vals :
             SetRhs(time, index, value)
    \/ /\ call = None
       /\ \E op \in Ops, index \in Chans(NumChan) : BitOpAssignSequence(op, index)
    \/ /\ call = None
       /\ \E op \in Ops, index \in Chans(NumChan) : BitOpAssignTimeByteSequence(op, index)
    \/ /\ call = None
       /\ NotStore

SpecAssign == AlgInit /\ [][AssignNext]_vars

\* C21: the in-place operators on a single-channel sequence apply the rule of
\* the non-mutating ones: after `A op= B`, A has exactly the explicit entries
\* of `&A_before op &B`, also at keys that exist in B only and follow a key of
\* A that the pass has already rewritten or removed.
C21_AssignIsBinary ==
    IsSome(call) =>
        /\ Unwrap(call).on = "Sequence_assign" =>
              Unwrap(result) =
                 Sequence_bitop(Unwrap(call).op,
                                MultiSequence_get_sequence(map, Unwrap(call).index),
                                MultiSequence_get_sequence(rhs, Unwrap(call).index))
        /\ Unwrap(call).on = "TimeByteSequence_assign" =>
              Unwrap(result) =
                 TimeByteSequence_bitop(Unwrap(call).op,
                                TimeByteMultiSequence_to_sequence(map, Unwrap(call).index),
                                TimeByteMultiSequence_to_sequence(rhs, Unwrap(call).index))

\* C22: NOT on a multi-channel store gives the bitwise complement at exactly
\* the operand's explicit entries: the result has an explicit entry at (t, c)
\* if and only if the operand has one, its value is the complement of the
\* operand's value there, and no entry comes from a held or default value.
C22_NotAtExplicitEntries ==
    (IsSome(call) /\ Unwrap(call).op = "not") =>
        /\ DOMAIN Unwrap(result) = DOMAIN map
        /\ \A t \in DOMAIN map : \A c \in Chans(n) :
              /\ IsSome(Unwrap(result)[t][c]) <=> IsSome(map[t][c])
              /\ IsSome(map[t][c]) =>
                    Unwrap(result)[t][c] = Some(BitNot(Unwrap(map[t][c])))

\* ------------- vector floor query (src/sequence/src/multisequence.rs)

\* MultiSequenceLike::floor for MultiSequence: the snapshot at the greatest
\* key <= time, its absent slots read as the default
MultiSequenceLike_floor(m, nn, time) ==
    IF RangeToInclusive(m, time) = {} THEN [i \in Chans(nn) |-> 0]
    ELSE LET array == m[MaxOf(RangeToInclusive(m, time))]
         IN  [i \in Chans(nn) |-> UnwrapOr(OptionArray_get(array, i), 0)]

\* C23: the vector floor query floor(time) returns, for every channel i, the
\* value of the per-channel floor(time, i): each channel is resolved from its
\* own greatest key <= time, also when the greatest key <= time of the whole
\* store has no entry for that channel.
C23_VectorFloorIsPerChannel ==
    kind = "MultiSequence" =>
        \A time \in QueryTimes : \A i \in Chans(n) :
            MultiSequenceLike_floor(map, n, time)[i] = MultiSequence_floor(map, time, i)

\* ------------------------------------------- more claims under SpecEnc

\* the sum over the buckets of a function of delta times the bucket's size
DeltaSum(f) ==
    SumOver([d \in DOMAIN f.buckets |-> d * Len(f.buckets[d])], DOMAIN f.buckets)

\* the state of the sample of the call at `time`
StateAt(time) ==
    LET k == CHOOSE j \in 1..Len(EncCall.data_changes) :
                 EncCall.data_changes[j][1] = time
    IN  EncCall.data_changes[k][2]

\* C24: every function data_to_functions emits is self-resetting. The sum over
\* its buckets of delta times the bucket's size is the coefficient of its
\* closing term, so it evaluates to 0 at and after its boundary time, and the
\* next function's first delta is computed against the baseline 0.
C24_SelfResetting ==
    IsSome(result) =>
        \A j \in 1..Len(Emitted) :
            /\ DeltaSum(Emitted[j]) = Emitted[j].closing.coef
            /\ \A x \in Emitted[j].closing.time..(EncMaxTime + 1) :
                  EvalFunction(Emitted[j], x) = 0
            /\ j > 1 =>
                  LET first == Emitted[j - 1].closing.time
                  IN  \E d \in DOMAIN Emitted[j].buckets :
                         /\ d = StateAt(first)
                         /\ Emitted[j].buckets[d][1] = first

\* a second function was emitted, and it carried a non-zero state to its close
C24_Witness ==
    /\ IsSome(result)
    /\ Len(Emitted) >= 2
    /\ Emitted[1].closing.coef # 0
    /\ Emitted[2].closing.coef # 0

\* ------------------------------- the inline encoder of the command line
\* main.rs, generate_music_player: the loop over the events of one packed
\* channel. An event is <<time, data>>; collect_into_packed_channels pushes one
\* event per distinct time, in ascending time order.

MainMaxCap == 2
MainMaxLen == 4
MainMaxTime == 3
MainMaxState == 2
\* the loop from event e (1-based) on; cap stands for the literal of
\* `if i > 1024`, scaled down so that bounded channels close a second function
RECURSIVE main_encode_loop(_, _, _, _, _, _, _)
main_encode_loop(channel, cap, e, i, prev_data, changes_keys_grouped, functions) ==
    IF e > Len(channel) THEN functions
    ELSE LET time == channel[e][1]
             data_e == channel[e][2]
             emit == i > cap \/ e >= Len(channel)
             kept == IF emit THEN EmptyMap ELSE changes_keys_grouped
         IN  main_encode_loop(
                 channel, cap, e + 1,
                 (IF emit THEN 0 ELSE i) + 1,
                 data_e,
                 PushDiff(kept, data_e - prev_data, time),
                 IF emit
                 THEN Append(functions, Function(changes_keys_grouped, prev_data, time))
                 ELSE functions)

main_encode(channel, cap) == main_encode_loop(channel, cap, 1, 0, 0, EmptyMap, <<>>)

\* one event per distinct time, ascending
IsPackedChannel(ch) == \A k \in 1..(Len(ch) - 1) : ch[k][1] < ch[k + 1][1]

PackedChannels ==
    UNION {{ch \in [1..ln -> (0..MainMaxTime) \X (0..MainMaxState)] : IsPackedChannel(ch)}
              : ln \in 0..MainMaxLen}

MainInit ==
    /\ kind = "MultiSequence"
    /\ n = NumChan
    /\ map = EmptyMap
    /\ written = EmptyMap
    /\ pre = None
    /\ writes = 0
    /\ query = None
    /\ rhs = EmptyMap
    /\ result = None
    /\ \E ch \in PackedChannels, cap \in 1..MainMaxCap :
          call = Some([op |-> "main_encode", channel |-> ch, cap |-> cap])
    /\ NoOptionArray
    /\ NoGraph

\* the event loop of one channel
MainEncode ==
    /\ result = None
    /\ result' = Some(main_encode(Unwrap(call).channel, Unwrap(call).cap))
    /\ UNCHANGED <<kind, n, map, written, pre, writes, query, rhs, call, oavars, gmp>>

MainNext == MainEncode

SpecMain == MainInit /\ [][MainNext]_vars

\* C25: the inline encoder resets the carried state when it closes a function.
\* The bucket deltas of every expression it emits sum to the coefficient of
\* that expression's closing term.
C25_InlineSelfResetting ==
    IsSome(result) =>
        \A j \in 1..Len(Emitted) : DeltaSum(Emitted[j]) = Emitted[j].closing.coef

\* ------------------------------------ the expression strings of the encoder
\* data_to_functions writes each function by iterating `diffs`, a HashMap, so
\* the order of the bucket terms in the string is whatever order the map's
\* iterator yields: any order of the keys.

\* the orders in which an iterator can yield the keys S
IterationOrders(S) ==
    {p \in [1..Cardinality(S) -> S] : \A a, b \in 1..Cardinality(S) : p[a] = p[b] => a = b}

\* the string of one function, its bucket terms written in `order`
write_function(f, order) ==
    [terms |-> [k \in 1..Len(order) |-> [diff |-> order[k], steps |-> f.buckets[order[k]]]],
     closing |-> f.closing]

\* the strings a function can be written as
FunctionStrings(f) == {write_function(f, order) : order \in IterationOrders(DOMAIN f.buckets)}

\* the lists of strings one run of data_to_functions can return
data_to_functions_strings(data_changes, max_events_per_func) ==
    LET fs == data_to_functions(data_changes, max_events_per_func)
    IN  {ss \in [1..Len(fs) -> UNION {FunctionStrings(fs[j]) : j \in 1..Len(fs)}] :
            \A j \in 1..Len(fs) : ss[j] \in FunctionStrings(fs[j])}

\* two runs of data_to_functions on the arguments of the call
RunTwice ==
    /\ result = None
    /\ \E first \in data_to_functions_strings(Unwrap(call).data_changes,
                                              Unwrap(call).max_events_per_func),
          second \in data_to_functions_strings(Unwrap(call).data_changes,
                                               Unwrap(call).max_events_per_func) :
          result' = Some([first |-> first, second |-> second])
    /\ UNCHANGED <<kind, n, map, written, pre, writes, query, rhs, call, oavars, gmp>>

StringsNext == RunTwice

SpecStrings == EncInit /\ [][StringsNext]_vars

\* C26: data_to_functions is deterministic in its output ordering. Two runs on
\* the same samples and cap return identical lists of strings, whatever the
\* iteration order of the delta-to-times map, and the times inside every
\* bucket ascend.
C26_SameStrings ==
    IsSome(result) =>
        /\ Unwrap(result).first = Unwrap(result).second
        /\ \A j \in 1..Len(Unwrap(result).first) :
              \A k \in 1..Len(Unwrap(result).first[j].terms) :
                 LET steps == Unwrap(result).first[j].terms[k].steps
                 IN  \A a \in 1..(Len(steps) - 1) : steps[a] < steps[a + 1]

\* ------------------------------------------------ ingestion of note events
\* lib.rs, generate_music_player: the note events <<time, key, state>> of all
\* tracks are sorted by time and folded into one change list per channel.

IngMaxEvents == 3
IngMaxTime == 1
IngMaxKey == 1
IngMaxNpv == 2
U8Max == 255

\* note_events.sort_by_key(|e| e.0): a stable sort, so events of one time keep
\* the order they were collected in
RECURSIVE sort_by_key_time(_)
sort_by_key_time(events) ==
    IF events = <<>> THEN <<>>
    ELSE LET t == MinOf({events[k][1] : k \in 1..Len(events)})
         IN  SelectSeq(events, LAMBDA e : e[1] = t)
                 \o sort_by_key_time(SelectSeq(events, LAMBDA e : e[1] # t))

\* the keys seen in the events
UsedKeys(events) == {events[k][2] : k \in 1..Len(events)}

\* key_mapping[&key]: the used keys are numbered in ascending order
key_mapping(used, key) == Cardinality({u \in used : u < key})

\* the counters after the events of one time, taken in list order
RECURSIVE count_events(_, _, _)
count_events(note_counters, used, events) ==
    IF events = <<>> THEN note_counters
    ELSE LET mapped == key_mapping(used, events[1][2])
             old == note_counters[mapped]
             new == IF events[1][3]
                    THEN (IF old + 1 > U8Max THEN U8Max ELSE old + 1)
                    ELSE (IF old - 1 < 0 THEN 0 ELSE old - 1)
         IN  count_events([note_counters EXCEPT ![mapped] = new], used, Tail(events))

\* the value of channel c: bit `bit` is set when the counter of key
\* c * notes_per_value + bit is at least 1
channel_data(note_counters, used_keys_count, notes_per_value, c) ==
    SumOver([bit \in 0..(notes_per_value - 1) |->
                LET index == c * notes_per_value + bit
                IN  IF index < used_keys_count /\ note_counters[index] >= 1
                    THEN Pow(2, bit) ELSE 0],
            0..(notes_per_value - 1))

\* a push that does not compare with the last pushed value
push_change_always(changes, current_time, data_c) ==
    Append(changes, <<current_time, data_c>>)

\* if data != prev_data { data_changes[c].push((current_time, data)) }
push_change(changes, current_time, data_c) ==
    LET prev_data == IF changes = <<>> THEN 0 ELSE changes[Len(changes)][2]
    IN  IF data_c # prev_data THEN Append(changes, <<current_time, data_c>>) ELSE changes

\* the while loop over the groups of equal time of the sorted events
RECURSIVE fold_note_events(_, _, _, _, _)
fold_note_events(note_events, used, notes_per_value, note_counters, data_changes) ==
    IF note_events = <<>> THEN data_changes
    ELSE LET current_time == note_events[1][1]
             events == SelectSeq(note_events, LAMBDA e : e[1] = current_time)
             rest == SelectSeq(note_events, LAMBDA e : e[1] # current_time)
             counted == count_events(note_counters, used, events)
         IN  fold_note_events(rest, used, notes_per_value, counted,
                 [c \in DOMAIN data_changes |->
                     push_change(data_changes[c], current_time,
                                 channel_data(counted, Cardinality(used), notes_per_value, c))])

\* from the collected note events to the change lists of the channels
ingest(note_events, notes_per_value) ==
    LET used == UsedKeys(note_events)
        count == channels_count(Cardinality(used), notes_per_value)
    IN  fold_note_events(sort_by_key_time(note_events), used, notes_per_value,
                         [i \in 0..(Cardinality(used) - 1) |-> 0],
                         [c \in 0..(count - 1) |-> <<>>])

NoteEvents == (0..IngMaxTime) \X (0..IngMaxKey) \X BOOLEAN

IngInit ==
    /\ kind = "MultiSequence"
    /\ n = NumChan
    /\ map = EmptyMap
    /\ written = EmptyMap
    /\ pre = None
    /\ writes = 0
    /\ query = None
    /\ rhs = EmptyMap
    /\ result = None
    /\ \E ln \in 0..IngMaxEvents, npv \in 1..IngMaxNpv :
          \E evs \in [1..ln -> NoteEvents] :
             call = Some([op |-> "ingest", note_events |-> evs, notes_per_value |-> npv])
    /\ NoOptionArray
    /\ NoGraph

\* the sort and the fold of generate_music_player
Ingest ==
    /\ result = None
    /\ result' = Some(ingest(Unwrap(call).note_events, Unwrap(call).notes_per_value))
    /\ UNCHANGED <<kind, n, map, written, pre, writes, query, rhs, call, oavars, gmp>>

IngNext == Ingest

SpecIngest == IngInit /\ [][IngNext]_vars

\* the lists that hold the events of `events` in another order
Reorderings(events) ==
    {[k \in 1..Len(events) |-> events[p[k]]] : p \in IterationOrders(1..Len(events))}

\* C27: ingestion tolerates any input order. Every reordering of the note
\* events, events of one time and note-offs at counter 0 included, yields the
\* same change lists for every channel.
C27_OrderInsensitive ==
    IsSome(result) =>
        \A evs \in Reorderings(Unwrap(call).note_events) :
            ingest(evs, Unwrap(call).notes_per_value) = Unwrap(result)

\* C29: the change lists fed to the encoder are deduplicated. In every
\* channel's list the times strictly increase, no two consecutive states are
\* equal, the first state is not zero, and every state is below
\* 2^notes_per_value.
C29_Deduplicated ==
    IsSome(result) =>
        \A c \in DOMAIN Unwrap(result) :
            LET changes == Unwrap(result)[c]
            IN  /\ \A k \in 1..(Len(changes) - 1) :
                      /\ changes[k][1] < changes[k + 1][1]
                      /\ changes[k][2] # changes[k + 1][2]
                /\ changes # <<>> => changes[1][2] # 0
                /\ \A k \in 1..Len(changes) :
                      changes[k][2] < Pow(2, Unwrap(call).notes_per_value)

\* a channel changed at one time and kept its state at another time that had
\* events
C29_Witness ==
    /\ IsSome(result)
    /\ \E c \in DOMAIN Unwrap(result) :
          /\ Unwrap(result)[c] # <<>>
          /\ Len(Unwrap(result)[c]) <
                Cardinality({Unwrap(call).note_events[k][1] :
                                k \in 1..Len(Unwrap(call).note_events)})

\* ------------------------------------------------- indexed reads of a view
\* The typed view reads a store of n bytes as n / ElemSize values; the raw view
\* reads a store of n values of ElemSize bytes as n * ElemSize bytes.

RawMaxWrites == 1

\* OptionArray::get(index): assert!(index < N), then the slot
OptionArray_get_checked(arr, nn, index) ==
    IF index >= nn THEN Panicked ELSE Returned(arr[index])

\* MultiSequenceView::get_raw
MultiSequenceView_get_raw(endian, m, nn, time, flat_index) ==
    LET elem_index == flat_index \div ElemSize
        byte_offset == flat_index % ElemSize
    IN  IF time \notin DOMAIN m THEN Returned(None)
        ELSE LET value == OptionArray_get_checked(m[time], nn, elem_index)
             IN  IF value.panic THEN Panicked
                 ELSE IF ~IsSome(value.value) THEN Returned(None)
                 ELSE Returned(Some(to_ne_bytes(endian, Unwrap(value.value))[byte_offset]))

\* .rev().find_map(closure) of floor_raw over the snapshots at keys
RECURSIVE FindMapRevRaw(_, _, _, _, _)
FindMapRevRaw(endian, m, nn, keys, flat_index) ==
    IF keys = {} THEN Returned(None)
    ELSE LET k == MaxOf(keys)
             value == OptionArray_get_checked(m[k], nn, flat_index \div ElemSize)
         IN  IF value.panic THEN Panicked
             ELSE IF IsSome(value.value)
             THEN Returned(Some(to_ne_bytes(endian, Unwrap(value.value))[flat_index % ElemSize]))
             ELSE FindMapRevRaw(endian, m, nn, keys \ {k}, flat_index)

\* MultiSequenceView::floor_raw
MultiSequenceView_floor_raw(endian, m, nn, time, flat_index) ==
    LET found == FindMapRevRaw(endian, m, nn, RangeToInclusive(m, time), flat_index)
    IN  IF found.panic THEN Panicked ELSE Returned(UnwrapOr(found.value, 0))

\* queried flat indices: every byte of the raw view and the first one past the end
RawIndices == 0..(ViewElems * ElemSize * ElemSize)

\* one indexed read of a view of the store, with what it returned
IndexedRead(op, endian, time, index) ==
    /\ call' = Some([op |-> op, endian |-> endian, time |-> time, index |-> index])
    /\ result' = Some(
          CASE op = "get_typed" ->
                   Returned(MultiSequenceView_get_typed(endian, map, n, time, index))
            [] op = "floor_typed" ->
                   MultiSequenceView_floor_typed(endian, map, n, time, index)
            [] op = "get_raw" ->
                   MultiSequenceView_get_raw(endian, map, n, time, index)
            [] op = "floor_raw" ->
                   MultiSequenceView_floor_raw(endian, map, n, time, index))
    /\ UNCHANGED <<kind, n, map, written, pre, writes, query, rhs, oavars, gmp>>

\* The store is written, then one indexed read is made on a view of it.
RawNext ==
    \/ /\ call = None /\ writes + 1 <= RawMaxWrites
       /\ \E time \in ViewTimes, index \in Chans(ViewElems * ElemSize), value \in Vals :
             Set(time, index, value)
    \/ /\ call = None
       /\ \E op \in {"get_typed", "floor_typed"}, endian \in Endians,
             time \in ViewQueryTimes, index \in ViewIndices :
             IndexedRead(op, endian, time, index)
    \/ /\ call = None
       /\ \E op \in {"get_raw", "floor_raw"}, endian \in Endians,
             time \in ViewQueryTimes, index \in RawIndices :
             IndexedRead(op, endian, time, index)

SpecRaw == ViewInit /\ [][RawNext]_vars

\* the read of the call is out of range
OutOfRange ==
    \/ /\ ViewCall.op \in {"get_typed", "floor_typed"}
       /\ (ViewCall.index + 1) * ElemSize > n
    \/ /\ ViewCall.op \in {"get_raw", "floor_raw"}
       /\ ViewCall.index >= n * ElemSize

\* C28: every out-of-range indexed read raises an error, also when the store is
\* empty or holds no key at or before the time: get_typed and floor_typed with
\* (k + 1) * size_of(Dst) > N, get_raw and floor_raw with a flat index of at
\* least N * size_of(T).
C28_OutOfRangeRaises ==
    (IsSome(result) /\ OutOfRange) => Unwrap(result).panic

\* ------------------------------- the blocks and connections of the graph
\* lib.rs, generate_music_player from `let mut blocks` on, with the blocks
\* kept: gmp.blocks maps a position to [id, connections, role, c], where role
\* and c say what the block was pushed as and for which channel. The number of
\* functions data_to_functions returns for a channel is 0..BuildMaxFuncs, for
\* the tempo events 1..BuildMaxFuncs.

BuildMaxKeys == 2
BuildMaxNpv == 2
BuildMaxFuncs == 2

Block(id, connections, role, c) ==
    [id |-> id, connections |-> connections, role |-> role, c |-> c]

\* blocks.len()
blocks_len(blocks) == Cardinality(DOMAIN blocks)

\* blocks.push(block)
blocks_push(blocks, block) ==
    [i \in 0..blocks_len(blocks) |-> IF i < blocks_len(blocks) THEN blocks[i] ELSE block]

\* a push that stores the index twice
connections_push_twice(blocks, at, index) ==
    [blocks EXCEPT ![at].connections = Append(Append(@, index), index)]

\* if let Some(b) = blocks.get_mut(at) { b.connections.push(index) }
connections_push(blocks, at, index) ==
    IF at \in DOMAIN blocks
    THEN [blocks EXCEPT ![at].connections = Append(@, index)]
    ELSE blocks

\* the five blocks that are always present
Prologue ==
    [i \in 0..4 |->
        CASE i = 0 -> Block(129, <<2, 4>>, "main", 0)
          [] i = 1 -> Block(9, <<0>>, "switch", 0)
          [] i = 2 -> Block(78, <<0>>, "update", 0)
          [] i = 3 -> Block(78, <<0>>, "tempo_input", 0)
          [] i = 4 -> Block(78, <<>>, "main_output", 0)]

BuildInit ==
    /\ kind = "MultiSequence"
    /\ n = NumChan
    /\ map = EmptyMap
    /\ written = EmptyMap
    /\ pre = None
    /\ writes = 0
    /\ query = None
    /\ rhs = EmptyMap
    /\ result = None
    /\ call = None
    /\ NoOptionArray
    /\ \E used \in 0..BuildMaxKeys, npv \in 1..BuildMaxNpv :
          gmp = [pc |-> "channel", blocks |-> Prologue, c |-> 0, n |-> 0, f |-> 0,
                 used_keys_count |-> used, notes_per_value |-> npv,
                 channels_count |-> channels_count(used, npv),
                 decoder_index |-> 0, decoder_input_index |-> 0,
                 allocated |-> <<>>]

\* blocks.push(block); let index: u16 = (blocks.len() - 1).try_into()?;
\* Pushed(block) is the record after the push, with the index in .index, or
\* None when the conversion fails and the function returns the error.
Pushed(block) ==
    LET pushed == blocks_push(gmp.blocks, block)
        index == try_into_u16(blocks_len(pushed) - 1)
    IN  IF IsSome(index)
        THEN Some([blocks |-> pushed, index |-> Unwrap(index)])
        ELSE None

\* the index and the blocks after a push that succeeded
PushedIndex(block) == Unwrap(Pushed(block)).index
PushedBlocks(block) == Unwrap(Pushed(block)).blocks

\* the step of generate_music_player that pushes `block` and goes on with the
\* record `after`, which is written with PushedIndex and PushedBlocks
BuildStep(block, after) ==
    /\ IF IsSome(Pushed(block))
       THEN /\ gmp' = [after EXCEPT !.allocated = Append(@, PushedIndex(block))]
            /\ result' = None
       ELSE /\ gmp' = [gmp EXCEPT !.pc = "err", !.blocks = Prologue]
            /\ result' = Some([ok |-> FALSE, error |-> "FromInt"])
    /\ GmpFrame

\* lines 249-261: the decoder block of channel c
BuildDecoder ==
    /\ gmp.pc = "channel"
    /\ LET block == Block(129, <<>>, "decoder", gmp.c)
       IN  BuildStep(block,
                     [gmp EXCEPT !.pc = "decoder_input", !.blocks = PushedBlocks(block),
                                 !.decoder_index = PushedIndex(block)])

\* lines 263-268: the decoder's input block, connected to the decoder
BuildDecoderInput ==
    /\ gmp.pc = "decoder_input"
    /\ LET block == Block(78, <<gmp.decoder_index>>, "decoder_input", gmp.c)
       IN  BuildStep(block,
                     [gmp EXCEPT !.pc = "tone_gen", !.blocks = PushedBlocks(block), !.n = 0,
                                 !.decoder_input_index = PushedIndex(block)])

\* lines 270-290: one iteration of `for n in 0..notes_per_value`
BuildToneGen ==
    /\ gmp.pc = "tone_gen"
    /\ IF ~(gmp.c * gmp.notes_per_value + gmp.n < gmp.used_keys_count)
       THEN /\ gmp' = [gmp EXCEPT !.pc = AfterToneGen(gmp.n), !.n = gmp.n + 1, !.f = 0]
            /\ UNCHANGED result
            /\ GmpFrame
       ELSE LET block == Block(125, <<>>, "tone_gen", gmp.c)
            IN  BuildStep(block,
                          [gmp EXCEPT !.pc = AfterToneGen(gmp.n), !.n = gmp.n + 1, !.f = 0,
                                      !.blocks = connections_push(PushedBlocks(block),
                                                                  gmp.decoder_index,
                                                                  PushedIndex(block))])

\* lines 294-314: one iteration of `for f in functions` of channel c
BuildDataBlock ==
    /\ gmp.pc = "functions"
    /\ gmp.f < BuildMaxFuncs
    /\ LET block == Block(129, <<gmp.decoder_input_index>>, "data", gmp.c)
       IN  BuildStep(block,
                     [gmp EXCEPT !.f = gmp.f + 1,
                                 !.blocks = connections_push(PushedBlocks(block), 4,
                                                             PushedIndex(block))])

\* the functions of channel c are exhausted: next c, or the tempo blocks
BuildEndChannel ==
    /\ gmp.pc = "functions"
    /\ gmp' = [gmp EXCEPT !.c = gmp.c + 1, !.f = 0,
                          !.pc = IF gmp.c + 1 < gmp.channels_count
                                 THEN "channel" ELSE "tempo_first"]
    /\ UNCHANGED result
    /\ GmpFrame

\* lines 318-339: one iteration of `for f in functions` of the tempo events
BuildTempoBlock ==
    /\ gmp.pc \in {"tempo_first", "tempo"}
    /\ gmp.f < BuildMaxFuncs
    /\ LET block == Block(129, <<3>>, "tempo", 0)
       IN  BuildStep(block,
                     [gmp EXCEPT !.pc = "tempo", !.f = gmp.f + 1,
                                 !.blocks = connections_push(PushedBlocks(block), 4,
                                                             PushedIndex(block))])

\* lines 341-344: Ok(Building { roots, blocks })
BuildReturn ==
    /\ gmp.pc = "tempo"
    /\ gmp' = [gmp EXCEPT !.pc = "ok"]
    /\ result' = Some([ok |-> TRUE, blocks |-> gmp.blocks])
    /\ GmpFrame

BuildNext ==
    \/ BuildDecoder
    \/ BuildDecoderInput
    \/ BuildToneGen
    \/ BuildDataBlock
    \/ BuildEndChannel
    \/ BuildTempoBlock
    \/ BuildReturn

SpecBuild == BuildInit /\ [][BuildNext]_vars

\* the positions of the blocks pushed as `role`
BlocksOf(blocks, role) == {i \in DOMAIN blocks : blocks[i].role = role}

\* how many times `index` stands in the connections of the block at `at`
Occurrences(blocks, at, index) ==
    Cardinality({k \in 1..Len(blocks[at].connections) : blocks[at].connections[k] = index})

\* C30: the returned graph is well formed. Every connection is the index of an
\* existing block; after the five blocks of the prologue the indices are
\* assigned in strictly increasing order; every data block has exactly one
\* connection, to the decoder input of its channel (block 3 for a tempo
\* block), and stands exactly once in the connections of block 4; every tone
\* generator stands in the connections of exactly one decoder; there are as
\* many tone generators as used keys; no connections list holds a duplicate.
C30_WellFormedGraph ==
    (IsSome(result) /\ Unwrap(result).ok) =>
        LET blocks == Unwrap(result).blocks
        IN  /\ \A i \in DOMAIN blocks :
                  /\ \A k \in 1..Len(blocks[i].connections) :
                        /\ blocks[i].connections[k] \in DOMAIN blocks
                        /\ Occurrences(blocks, i, blocks[i].connections[k]) = 1
            /\ \A k \in 1..Len(gmp.allocated) : gmp.allocated[k] = 4 + k
            /\ Len(gmp.allocated) = blocks_len(blocks) - 5
            /\ \A i \in BlocksOf(blocks, "data") :
                  /\ Len(blocks[i].connections) = 1
                  /\ blocks[blocks[i].connections[1]].role = "decoder_input"
                  /\ blocks[blocks[i].connections[1]].c = blocks[i].c
                  /\ Occurrences(blocks, 4, i) = 1
            /\ \A i \in BlocksOf(blocks, "tempo") :
                  /\ blocks[i].connections = <<3>>
                  /\ Occurrences(blocks, 4, i) = 1
            /\ \A i \in BlocksOf(blocks, "tone_gen") :
                  /\ Cardinality({d \in BlocksOf(blocks, "decoder") :
                                     Occurrences(blocks, d, i) >= 1}) = 1
                  /\ \A d \in BlocksOf(blocks, "decoder") : Occurrences(blocks, d, i) <= 1
            /\ Cardinality(BlocksOf(blocks, "tone_gen")) = gmp.used_keys_count

\* a returned graph of two channels with tone generators, data blocks and two
\* tempo blocks
C30_Witness ==
    /\ IsSome(result)
    /\ Unwrap(result).ok
    /\ Cardinality(BlocksOf(Unwrap(result).blocks, "decoder")) = 2
    /\ Cardinality(BlocksOf(Unwrap(result).blocks, "tone_gen")) = 2
    /\ Cardinality(BlocksOf(Unwrap(result).blocks, "data")) >= 2
    /\ Cardinality(BlocksOf(Unwrap(result).blocks, "tempo")) = 2

====
